---- MODULE Spec2Model ----
(***************************************************************************)
(* A model of package rx of kberov/rowx: the migration runner (Migrate,    *)
(* parseMigrationFile, multiExec) and the record mapper Rx (Insert,        *)
(* Update, renderInsertQuery), over an abstract transactional store.       *)
(***************************************************************************)
EXTENDS Integers, Sequences, FiniteSets, TLC

\* ---------------------------------------------------------------- bounds
MaxLines == 4      \* longest migration file, in lines
MaxVersion == 2    \* versions used in the headers are 1..MaxVersion
MaxCalls == 2      \* Migrate calls in one behaviour
MaxFaults == 1     \* failures that come from outside: a store operation that
                   \* fails, a file that cannot be opened, a bad direction

MaxRecords == 2    \* records a mapper holds
MaxRows == 2       \* rows ever inserted into the table users
MaxFields == 2     \* fields of a record type
MaxWhereLen == 7   \* characters of a where fragment
MaxNameLen == 6    \* runes of a name
MaxTextLen == 4    \* pieces of a template
MaxPathLen == 6    \* characters of a file path

\* ------------------------------------------------------------- constants
MigrationsTable == "rx_migrations"
UserTable == "T"
up == "up"
down == "down"
updown == <<up, down>>
NoVersion == 0     \* the empty version string ``
NoDB == "nil"
DefaultDSN == ":memory:"
FileDSN == "file.sqlite"
SharedDSN == "file::memory:?cache=shared"

\* ------------------------------------------------------------- variables
VARIABLES
  file,        \* the lines of the migration file given to every call
  tables,      \* the store: names of the tables that exist
  ledger,      \* the store: rows of rx_migrations, in insertion order
  DSN,         \* package variable DSN
  singleDB,    \* package variable singleDB: NoDB or the DSN it was opened with
  pc,          \* where the current Migrate call is: idle, loop, returned
  direction,   \* argument of the current call
  migrations,  \* local of Migrate: the collected units
  idx,         \* position of the range loop over migrations
  err,         \* what the call returned: nil, direction, open, exec, commit, insert
  ledger0,     \* history: the ledger when the current call started
  getFailed,   \* history: the header lines whose lookup failed in the current call
  log,         \* history: the units the current call handed to multiExec
  clean,       \* history: no store operation has failed in the current call
  calls,       \* history: the finished calls
  execCount,   \* history: per file line, how often its statement was committed
  faults       \* history: number of outside failures so far

\* Rx[Users] over the table users
VARIABLES
  users,       \* the store: rows of the table users
  seq,         \* the store: the AUTOINCREMENT counter of users
  data,        \* m.data of the registered Rx[Users]
  rxOp,        \* the last call on the mapper: none, NewRx, Insert, Update
  rxResult,    \* how it ended: none, ok, error, panic
  users0,      \* history: the rows of users when the last call started
  nBegin,      \* history: transactions the last call began
  nPrepare,    \* history: statements the last call prepared
  nExec,       \* history: statements the last call executed
  done,        \* history: records whose statement succeeded in the last call
  nEnd,        \* history: transactions the last call committed or rolled back
  rxArgs,      \* the arguments of the last Select or Get
  rxQuery,     \* the query the last Select or Get rendered
  ret,         \* what the last Select or Get returned: a sequence of records
  rxErr        \* the error it returned: nil, norows, bind, syntax, store

\* Rx[R] for a record type R and the INSERT it renders
VARIABLES
  rtype,       \* the fields of R as reflectx maps them
  rcustom,     \* the Columns() method of R, when it has one
  rcolumns,    \* m.columns: the column names kept from the first Columns()
  rdata,       \* m.data: the values the records hold, per field
  rquery,      \* the query the last Insert rendered
  rresult,     \* how the last Insert ended: none, ok, error, panic
  rrows,       \* the store: the rows of R's table
  rname,       \* the name of the type R, a sequence of runes
  rmeta,       \* the Table() method of R, when it has one
  rtable,      \* m.table: the name kept from the first Table()
  rop,         \* the last call on the mapper of R
  tableRet,    \* what the last Table() returned
  colsRet      \* what the last Columns() returned

\* ifWhere applied to a where fragment
VARIABLES
  wIn,         \* the fragment, a sequence of characters
  wOut,        \* ifWhere(wIn)
  wAgain,      \* ifWhere(wOut)
  wPc          \* how often ifWhere was applied

\* CamelToSnake and SnakeToCamel applied to a name
VARIABLES
  nIn,         \* the name, a sequence of runes
  nSnake,      \* CamelToSnake(nIn)
  nCamel,      \* SnakeToCamel(nSnake)
  nPc,         \* 0: the name is being written, 1: nSnake is set, 2: nCamel too,
               \* 3: nSet too
  nSet         \* SQLForSET of a list of columns with nIn in it

\* RenderSQLTemplate and replace applied to templates
VARIABLES
  tDict,       \* the package variable QueryTemplates: templates by their key
  tStash,      \* the stash of the caller: values by their name
  tKey,        \* the key RenderSQLTemplate was called with
  tSql,        \* what RenderSQLTemplate returned
  tOnce,       \* replace(tDict.A, tStash)
  tTwice,      \* replace(tOnce, tStash)
  tPc,         \* text: the template is being written, then rendered, once, twice
  \* safeOpen
  pPath,       \* the file path, a sequence of characters
  pRes,        \* what safeOpen did: panic, opened, error
  pPc          \* 0: the path is being written, 1: safeOpen returned

migRest == <<file, tables, ledger, DSN, pc, direction, migrations,
             idx, err, ledger0, getFailed, log, clean, calls, execCount, faults>>
migVars == <<migRest, singleDB>>
selVars == <<rxArgs, rxQuery, ret, rxErr>>
rxVars == <<users, seq, data, rxOp, rxResult, users0, nBegin, nPrepare, nExec, done,
            nEnd, selVars>>
whereVars == <<wIn, wOut, wAgain, wPc>>
nameVars == <<nIn, nSnake, nCamel, nPc, nSet>>
renderVars == <<tDict, tStash, tKey, tSql, tOnce, tTwice, tPc>>
pathVars == <<pPath, pRes, pPc>>
fnVars == <<whereVars, nameVars, renderVars, pathVars>>
metaVars == <<rname, rmeta, rtable, rop, tableRet, colsRet>>
insRest == <<rtype, rcustom, rcolumns, rdata, rquery, rresult, rrows, metaVars>>
insVars == <<insRest, fnVars>>

vars == <<migVars, rxVars, insVars>>

\* ----------------------------------------------------------------- lines
\* A line of the file is a header `-- <version> <direction>` or a statement.
Hdr(v, d) == [kind |-> "hdr", version |-> v, direction |-> d, op |-> "none"]
Sql(op) == [kind |-> "sql", version |-> NoVersion, direction |-> "", op |-> op]
Versions == 1..MaxVersion
Dirs == {up, down}
Ops == {"create", "drop"}   \* CREATE TABLE T (...)  /  DROP TABLE IF EXISTS T
LineSet == {Hdr(v, d) : v \in Versions, d \in Dirs} \cup {Sql(o) : o \in Ops}
\* Versions are only ever compared for equality, so the first header of a
\* file is taken to carry version 1.
Files == {f \in UNION {[1..n -> LineSet] : n \in 0..MaxLines} :
            \A i \in 1..Len(f) :
              (f[i].kind = "hdr" /\ \A j \in 1..(i - 1) : f[j].kind # "hdr")
                => f[i].version = 1}

Reverse(s) == [k \in 1..Len(s) |-> s[Len(s) + 1 - k]]
Last(s) == s[Len(s)]

unknown(d) == d # updown[1] /\ d # updown[2]

parseMigrationHeader(line) ==
  IF line.kind = "hdr" THEN <<line.version, line.direction>>
  ELSE <<NoVersion, "">>

\* ----------------------------------------------------------------- store
Row(v, d) == [version |-> v, direction |-> d]
RowCount(ldg, v, d) == Cardinality({k \in 1..Len(ldg) : ldg[k] = Row(v, d)})

\* NewRx[Migrations]().Get(`version=:ver AND direction =:dir`, ...): the
\* outcome of the ledger lookup; fault is a failure of the store itself.
LedgerGetAnyDirection(ldg, v, d, fault) ==
  IF fault THEN "error"
  ELSE IF \E k \in 1..Len(ldg) : ldg[k].version = v THEN "found"
  ELSE "norows"

LedgerGet(ldg, v, d, fault) ==
  IF fault THEN "error"
  ELSE IF \E k \in 1..Len(ldg) : ldg[k] = Row(v, d) THEN "found"
  ELSE "norows"

\* CREATE_MIGRATIONS_TABLE declares UNIQUE(version, direction); Insert of a
\* Migrations record fails on a duplicate pair or when the store fails.
LedgerInsert(ldg, v, d, fault) ==
  IF fault \/ RowCount(ldg, v, d) > 0
  THEN [ledger |-> ldg, ok |-> FALSE]
  ELSE [ledger |-> Append(ldg, Row(v, d)), ok |-> TRUE]

\* One statement against the working copy of a transaction.
ExecStmt(tbls, op) ==
  IF op = "create"
  THEN IF UserTable \in tbls THEN [tables |-> tbls, ok |-> FALSE]
       ELSE [tables |-> tbls \cup {UserTable}, ok |-> TRUE]
  ELSE [tables |-> tbls \ {UserTable}, ok |-> TRUE]

\* tx.Exec(query): the statements of the query run in order and stop at the
\* first that fails; xf = k makes statement k fail for an outside reason.
RECURSIVE txExec(_, _, _, _)
txExec(tbls, ops, k, xf) ==
  IF k > Len(ops) THEN [tables |-> tbls, ok |-> TRUE, done |-> Len(ops)]
  ELSE LET r == ExecStmt(tbls, ops[k]) IN
       IF xf = k \/ ~r.ok THEN [tables |-> tbls, ok |-> FALSE, done |-> k - 1]
       ELSE txExec(r.tables, ops, k + 1, xf)

\* multiExec without the transaction: what ran before the failure stays.
multiExecNoTx(tbls, ops, xf) ==
  LET r == txExec(tbls, ops, 1, xf) IN
  IF ~r.ok THEN [tables |-> r.tables, err |-> "exec", done |-> r.done,
                 begun |-> 0, ended |-> 0]
  ELSE [tables |-> r.tables, err |-> "nil", done |-> r.done,
        begun |-> 0, ended |-> 0]

\* multiExec: begin, exec, commit, with the deferred rollback, which ends
\* the transaction when Commit has not.  xf = Len(ops) + 1 makes the commit
\* fail.  begun and ended count the transactions begun and ended.
multiExec(tbls, ops, xf) ==
  LET r == txExec(tbls, ops, 1, xf) IN
  IF ~r.ok THEN [tables |-> tbls, err |-> "exec", done |-> 0,
                 begun |-> 1, ended |-> 1]
  ELSE IF xf = Len(ops) + 1
  THEN [tables |-> tbls, err |-> "commit", done |-> 0, begun |-> 1, ended |-> 1]
  ELSE [tables |-> r.tables, err |-> "nil", done |-> r.done,
        begun |-> 1, ended |-> 1]

\* ------------------------------------------------------ parseMigrationFile
Unit(v, d, h) == [Version |-> v, Direction |-> d, Statements |-> <<>>, hdr |-> h]

\* The scanner loop; lf is the set of header lines whose lookup fails with an
\* error other than sql.ErrNoRows.  Statements holds the collected lines by
\* their position in the file, hdr the line of the header that opened the unit.
RECURSIVE scanLines(_, _, _, _, _, _, _)
scanLines(f, ldg, lf, i, migs, versionIsApplied, currentVersion) ==
  IF i > Len(f) THEN migs
  ELSE
    LET h == parseMigrationHeader(f[i]) IN
    IF h[1] # NoVersion /\ h[2] # ""
    THEN LET r == LedgerGet(ldg, h[1], h[2], i \in lf) IN
         IF r = "norows"
         THEN scanLines(f, ldg, lf, i + 1, Append(migs, Unit(h[1], h[2], i)),
                        FALSE, h[1])
         ELSE IF r = "found"
         THEN scanLines(f, ldg, lf, i + 1, migs, TRUE, currentVersion)
         ELSE scanLines(f, ldg, lf, i + 1, migs, versionIsApplied, currentVersion)
    ELSE IF currentVersion = NoVersion \/ versionIsApplied
    THEN scanLines(f, ldg, lf, i + 1, migs, versionIsApplied, currentVersion)
    ELSE scanLines(f, ldg, lf, i + 1,
                   [migs EXCEPT ![Len(migs)].Statements = Append(@, i)],
                   versionIsApplied, currentVersion)

parseMigrationFile(f, ldg, lf) == scanLines(f, ldg, lf, 1, <<>>, FALSE, NoVersion)

\* v.Statements.String(): the statements of the collected lines.
StatementsOf(f, v) == [k \in 1..Len(v.Statements) |-> f[v.Statements[k]].op]

\* ------------------------------------------------------------------ Migrate
\* One pass of the range loop for a unit of the requested direction:
\* multiExec, then the ledger Insert; every error returns at once.
\* UnitStep with the ledger Insert ahead of the check of multiExec's error.
UnitStepRecordFirst(tbls, ldg, f, v, xf, nf) ==
  LET x == multiExec(tbls, StatementsOf(f, v), xf)
      n == LedgerInsert(ldg, v.Version, v.Direction, nf)
  IN [tables |-> x.tables, ledger |-> n.ledger, done |-> x.done,
      recorded |-> n.ok, begun |-> x.begun, ended |-> x.ended,
      err |-> IF x.err # "nil" THEN x.err ELSE IF n.ok THEN "nil" ELSE "insert"]

\* UnitStep without the ledger Insert.
UnitStepNoRecord(tbls, ldg, f, v, xf, nf) ==
  LET x == multiExec(tbls, StatementsOf(f, v), xf) IN
  [tables |-> x.tables, ledger |-> ldg, done |-> x.done, recorded |-> FALSE,
   begun |-> x.begun, ended |-> x.ended,
   err |-> IF x.err # "nil" THEN x.err ELSE IF nf THEN "insert" ELSE "nil"]

UnitStep(tbls, ldg, f, v, xf, nf) ==
  LET x == multiExec(tbls, StatementsOf(f, v), xf) IN
  IF x.err # "nil"
  THEN [tables |-> x.tables, ledger |-> ldg, done |-> x.done,
        recorded |-> FALSE, begun |-> x.begun, ended |-> x.ended, err |-> x.err]
  ELSE LET n == LedgerInsert(ldg, v.Version, v.Direction, nf) IN
       [tables |-> x.tables, ledger |-> n.ledger, done |-> x.done,
        recorded |-> n.ok, begun |-> x.begun, ended |-> x.ended,
        err |-> IF n.ok THEN "nil" ELSE "insert"]

\* The units Migrate ranges over: parsed, and reversed for down.
Collected(f, ldg, lf, d) ==
  LET m == parseMigrationFile(f, ldg, lf) IN
  IF d = updown[2] THEN Reverse(m) ELSE m

Finished(d, e, c, n) == [direction |-> d, err |-> e, clean |-> c, nexec |-> n]

InitMig ==
  /\ file \in Files
  /\ tables = {}
  /\ ledger = <<>>
  /\ DSN = DefaultDSN
  /\ singleDB = NoDB
  /\ pc = "idle"
  /\ direction = ""
  /\ migrations = <<>>
  /\ idx = 0
  /\ err = "nil"
  /\ ledger0 = <<>>
  /\ getFailed = {}
  /\ log = <<>>
  /\ clean = TRUE
  /\ calls = <<>>
  /\ execCount = [k \in 1..Len(file) |-> 0]
  /\ faults = 0

\* Migrate that tests the direction after DSN = dsn and the creation of the
\* ledger table.
MigrateUnknownConnects(d) ==
  /\ pc \in {"idle", "returned"}
  /\ Len(calls) < MaxCalls
  /\ unknown(d)
  /\ faults < MaxFaults
  /\ faults' = faults + 1
  /\ pc' = "returned"
  /\ direction' = d
  /\ err' = "direction"
  /\ migrations' = <<>>
  /\ idx' = 0
  /\ ledger0' = ledger
  /\ getFailed' = {}
  /\ log' = <<>>
  /\ clean' = FALSE
  /\ calls' = Append(calls, Finished(d, "direction", FALSE, 0))
  /\ DSN' = FileDSN
  /\ singleDB' = IF singleDB # NoDB THEN singleDB ELSE FileDSN
  /\ tables' = tables \cup {MigrationsTable}
  /\ UNCHANGED <<file, ledger, execCount>>
  /\ UNCHANGED <<rxVars, insVars>>

\* Migrate with a direction that is neither up nor down (lines 153-155).
MigrateUnknown(d) ==
  /\ pc \in {"idle", "returned"}
  /\ Len(calls) < MaxCalls
  /\ unknown(d)
  /\ faults < MaxFaults
  /\ faults' = faults + 1
  /\ pc' = "returned"
  /\ direction' = d
  /\ err' = "direction"
  /\ migrations' = <<>>
  /\ idx' = 0
  /\ ledger0' = ledger
  /\ getFailed' = {}
  /\ log' = <<>>
  /\ clean' = FALSE
  /\ calls' = Append(calls, Finished(d, "direction", FALSE, 0))
  /\ UNCHANGED <<file, tables, ledger, DSN, singleDB, execCount>>
  /\ UNCHANGED <<rxVars, insVars>>

\* Migrate that connects to its dsn whatever connection there is.
MigrateBeginReconnect(d, dsn, openOk, lf) ==
  /\ pc \in {"idle", "returned"}
  /\ Len(calls) < MaxCalls
  /\ ~unknown(d)
  /\ faults + Cardinality(lf) + (IF openOk THEN 0 ELSE 1) <= MaxFaults
  /\ direction' = d
  /\ DSN' = dsn
  /\ singleDB' = dsn
  /\ tables' = tables \cup {MigrationsTable}
  /\ ledger0' = ledger
  /\ getFailed' = lf
  /\ log' = <<>>
  /\ idx' = 1
  /\ faults' = faults + Cardinality(lf) + (IF openOk THEN 0 ELSE 1)
  /\ IF openOk
     THEN LET m == Collected(file, ledger, lf, d) IN
          /\ migrations' = m
          /\ err' = "nil"
          /\ clean' = (lf = {})
          /\ IF Len(m) = 0
             THEN /\ pc' = "returned"
                  /\ calls' = Append(calls, Finished(d, "nil", lf = {}, 0))
             ELSE /\ pc' = "loop"
                  /\ calls' = calls
     ELSE /\ lf = {}
          /\ migrations' = <<>>
          /\ pc' = "returned"
          /\ err' = "open"
          /\ clean' = FALSE
          /\ calls' = Append(calls, Finished(d, "open", FALSE, 0))
  /\ UNCHANGED <<file, ledger, execCount>>
  /\ UNCHANGED <<rxVars, insVars>>

\* Migrate up to the range loop (lines 156-170): DSN, DB(), the ledger table,
\* parseMigrationFile and the reversal.  openOk is whether os.Open succeeds.
\* With nothing to range over the call returns nil (line 190).
MigrateBegin(d, dsn, openOk, lf) ==
  /\ pc \in {"idle", "returned"}
  /\ Len(calls) < MaxCalls
  /\ ~unknown(d)
  /\ faults + Cardinality(lf) + (IF openOk THEN 0 ELSE 1) <= MaxFaults
  /\ direction' = d
  /\ DSN' = dsn
  /\ singleDB' = IF singleDB # NoDB THEN singleDB ELSE dsn
  /\ tables' = tables \cup {MigrationsTable}
  /\ ledger0' = ledger
  /\ getFailed' = lf
  /\ log' = <<>>
  /\ idx' = 1
  /\ faults' = faults + Cardinality(lf) + (IF openOk THEN 0 ELSE 1)
  /\ IF openOk
     THEN LET m == Collected(file, ledger, lf, d) IN
          /\ migrations' = m
          /\ err' = "nil"
          /\ clean' = (lf = {})
          /\ IF Len(m) = 0
             THEN /\ pc' = "returned"
                  /\ calls' = Append(calls, Finished(d, "nil", lf = {}, 0))
             ELSE /\ pc' = "loop"
                  /\ calls' = calls
     ELSE /\ lf = {}
          /\ migrations' = <<>>
          /\ pc' = "returned"
          /\ err' = "open"
          /\ clean' = FALSE
          /\ calls' = Append(calls, Finished(d, "open", FALSE, 0))
  /\ UNCHANGED <<file, ledger, execCount>>
  /\ UNCHANGED <<rxVars, insVars>>

\* One pass of the range loop (lines 172-189); after the last pass the call
\* returns err, which is nil there (line 190).
MigrateUnit(xf, nf) ==
  /\ pc = "loop"
  /\ idx <= Len(migrations)
  /\ LET v == migrations[idx] IN
     IF v.Direction # direction
     THEN /\ xf = 0 /\ ~nf
          /\ idx' = idx + 1
          /\ IF idx = Len(migrations)
             THEN /\ pc' = "returned"
                  /\ calls' = Append(calls, Finished(direction, err, clean, Len(log)))
             ELSE UNCHANGED <<pc, calls>>
          /\ UNCHANGED <<tables, ledger, err, log, clean, execCount, faults>>
     ELSE LET r == UnitStep(tables, ledger, file, v, xf, nf)
              nflt == (IF xf # 0 THEN 1 ELSE 0) + (IF nf THEN 1 ELSE 0)
              c == clean /\ r.err = "nil"
              entry == [hdr |-> v.hdr, Version |-> v.Version, Direction |-> v.Direction,
                        Statements |-> v.Statements, done |-> r.done, err |-> r.err,
                        recorded |-> r.recorded, before |-> tables, after |-> r.tables,
                        ledgerBefore |-> ledger, begun |-> r.begun,
                        ended |-> r.ended]
          IN /\ xf \in 0..(Len(v.Statements) + 1)
             \* an outside failure is one that the run reaches
             /\ xf # 0 => txExec(tables, StatementsOf(file, v), 1, 0).done >= xf - 1
             /\ nf => r.err = "insert"
             /\ faults + nflt <= MaxFaults
             /\ faults' = faults + nflt
             /\ tables' = r.tables
             /\ ledger' = r.ledger
             /\ log' = Append(log, entry)
             /\ clean' = c
             /\ execCount' = [k \in DOMAIN execCount |->
                               IF \E j \in 1..r.done : v.Statements[j] = k
                               THEN execCount[k] + 1 ELSE execCount[k]]
             /\ IF r.err # "nil"
                THEN /\ pc' = "returned"
                     /\ err' = r.err
                     /\ idx' = idx
                     /\ calls' = Append(calls, Finished(direction, r.err, FALSE, Len(log) + 1))
                ELSE /\ idx' = idx + 1
                     /\ err' = err
                     /\ IF idx = Len(migrations)
                        THEN /\ pc' = "returned"
                             /\ calls' = Append(calls, Finished(direction, err, c, Len(log) + 1))
                        ELSE UNCHANGED <<pc, calls>>
  /\ UNCHANGED <<file, DSN, singleDB, direction, migrations, ledger0, getFailed>>
  /\ UNCHANGED <<rxVars, insVars>>

NextMig ==
  \/ \E d \in {"left"} : MigrateUnknown(d)
  \/ \E d \in Dirs, openOk \in BOOLEAN, lf \in SUBSET (1..Len(file)) :
       /\ \A k \in lf : file[k].kind = "hdr"
       /\ MigrateBegin(d, FileDSN, openOk, lf)
  \/ \E xf \in 0..(MaxLines + 2), nf \in BOOLEAN : MigrateUnit(xf, nf)


\* ------------------------------------------------------------ record types
\* A field as reflectx maps it: Name, Path and the tag options.  A field of
\* a nested struct has a dotted Path.
Field(n, p, o) == [name |-> n, path |-> p, opts |-> o]
FieldNames == {<<"id", "id">>, <<"login_name", "login_name">>,
               <<"rx", "rx">>, <<"id", "where.id">>}
OptSets == {{}, {"auto"}, {"no_auto"}, {"-"}, {"auto", "no_auto"}}
FieldSet == {Field(np[1], np[2], o) : np \in FieldNames, o \in OptSets}
IsNested(path) == path = "where.id"    \* strings.Contains(v.Path, `.`)

\* A record type maps every column path to one field.
RecordTypes == {t \in UNION {[1..n -> FieldSet] : n \in 1..MaxFields} :
                  \A i, j \in 1..Len(t) : t[i].path = t[j].path => i = j}

NoColumns == [has |-> FALSE, cols |-> <<>>]
CustomColumns == {NoColumns,
                  [has |-> TRUE, cols |-> <<"id", "login_name">>],
                  [has |-> TRUE, cols |-> <<"login_name", "nosuch">>]}

\* fieldsMap[R]().Names
FieldNamed(t, p) == t[CHOOSE k \in 1..Len(t) : t[k].path = p]
HasField(t, p) == \E k \in 1..Len(t) : t[k].path = p

\* Rowx(m.r).(SqlxModel[R]): the type that embeds Rx has its methods.
Embeds(t) == \E k \in 1..Len(t) : t[k].name = "rx"

\* The loop of Columns without the test for a nested field.
RECURSIVE indexColumnsKeepNested(_, _)
indexColumnsKeepNested(t, k) ==
  IF k > Len(t) THEN <<>>
  ELSE IF t[k].name = "rx" \/ "-" \in t[k].opts
  THEN indexColumnsKeepNested(t, k + 1)
  ELSE <<t[k].path>> \o indexColumnsKeepNested(t, k + 1)

\* Rx.Columns over fieldsMap[R]().Index
RECURSIVE indexColumns(_, _)
indexColumns(t, k) ==
  IF k > Len(t) THEN <<>>
  ELSE IF t[k].name = "rx" \/ "-" \in t[k].opts \/ IsNested(t[k].path)
  THEN indexColumns(t, k + 1)
  ELSE <<t[k].path>> \o indexColumns(t, k + 1)

Columns(t, custom) ==
  IF ~Embeds(t) /\ custom.has THEN custom.cols ELSE indexColumns(t, 1)

\* The loop of renderInsertQuery without the test for the option auto.
RECURSIVE noAutoColumnsKeepAuto(_, _, _)
noAutoColumnsKeepAuto(t, cols, k) ==
  IF k > Len(cols) THEN <<>>
  ELSE IF cols[k] = "id" /\ "no_auto" \in FieldNamed(t, cols[k]).opts
  THEN noAutoColumnsKeepAuto(t, cols, k + 1)
  ELSE <<cols[k]>> \o noAutoColumnsKeepAuto(t, cols, k + 1)

\* The loop of renderInsertQuery (lines 356-366).
RECURSIVE noAutoColumns(_, _, _)
noAutoColumns(t, cols, k) ==
  IF k > Len(cols) THEN <<>>
  ELSE LET o == FieldNamed(t, cols[k]).opts IN
       IF cols[k] = "id" /\ "no_auto" \in o THEN noAutoColumns(t, cols, k + 1)
       ELSE IF "auto" \in o THEN noAutoColumns(t, cols, k + 1)
       ELSE <<cols[k]>> \o noAutoColumns(t, cols, k + 1)

\* strings.Join over a text kept as the sequence of its pieces.
RECURSIVE Join(_, _)
Join(s, sep) ==
  IF Len(s) = 0 THEN <<>>
  ELSE IF Len(s) = 1 THEN s
  ELSE <<s[1], sep>> \o Join(Tail(s), sep)

\* The tags rx gives to fasttemplate, and the placeholder ${name} of every
\* name a template of QueryTemplates uses. A text is the sequence of its
\* pieces; a start tag, a name and an end tag are pieces of their own.
startTag == "${"
endTag == "}"
PH == [n \in {"table", "columns", "placeholders", "WHERE", "SET", "limit",
              "offset"} |-> <<startTag, n, endTag>>]
InsertTemplate == <<"INSERT INTO ">> \o PH.table \o <<" (">> \o PH.columns
                    \o <<") VALUES ">> \o PH.placeholders
SelectTemplate == <<"SELECT ">> \o PH.columns \o <<" FROM ">> \o PH.table
                    \o <<" ">> \o PH.WHERE \o <<" LIMIT ">> \o PH.limit
                    \o <<" OFFSET ">> \o PH.offset
GetTemplate == <<"SELECT ">> \o PH.columns \o <<" FROM ">> \o PH.table
                 \o <<" ">> \o PH.WHERE \o <<" LIMIT 1">>
UpdateTemplate == <<"UPDATE ">> \o PH.table \o <<" ">> \o PH.SET \o <<" ">>
                    \o PH.WHERE
DeleteTemplate == <<"DELETE FROM ">> \o PH.table \o <<" ">> \o PH.WHERE
QueryTemplates == [INSERT |-> InsertTemplate, SELECT |-> SelectTemplate,
                   GET |-> GetTemplate, UPDATE |-> UpdateTemplate,
                   DELETE |-> DeleteTemplate]

\* strings.Index of a piece: the first place it is at, 0 when it is nowhere.
Index(s, t) ==
  IF \E i \in 1..Len(s) : s[i] = t
  THEN CHOOSE i \in 1..Len(s) : s[i] = t /\ \A j \in 1..(i - 1) : s[j] # t
  ELSE 0

\* What fasttemplate writes for a tag when it drops the one it does not know
\* (Execute, not ExecuteStd).
dropUnknownTagFunc(tag, m) ==
  IF Len(tag) = 1 /\ tag[1] \in DOMAIN m THEN m[tag[1]] ELSE <<>>

\* What ExecuteStringStd writes for a tag: the value bound to it, and the
\* tag between its start and end tag when nothing is bound to it.
keepUnknownTagFunc(tag, m) ==
  IF Len(tag) = 1 /\ tag[1] \in DOMAIN m THEN m[tag[1]]
  ELSE <<startTag>> \o tag \o <<endTag>>

\* fasttemplate.ExecuteStringStd(text, "${", "}", m): the text up to the next
\* start tag is written as it is, the tag runs to the next end tag, what is
\* written for it is not read again, and a start tag with no end tag after it
\* is written with the rest of the text.
RECURSIVE replace(_, _)
replace(text, m) ==
  LET n == Index(text, startTag) IN
  IF n = 0 THEN text
  ELSE LET s == SubSeq(text, n + 1, Len(text))
           e == Index(s, endTag)
       IN IF e = 0 THEN text
          ELSE SubSeq(text, 1, n - 1)
                 \o keepUnknownTagFunc(SubSeq(s, 1, e - 1), m)
                 \o replace(SubSeq(s, e + 1, Len(s)), m)

\* A second pass over what the stash pass wrote.
RenderSQLTemplateRescan(templates, key, stash) ==
  IF key \notin DOMAIN templates THEN <<"panic">>
  ELSE replace(replace(replace(templates[key], templates), stash), stash)

\* RenderSQLTemplate, the package variable QueryTemplates being templates:
\* one pass with the templates, then one with the stash; a key that
\* QueryTemplates does not hold panics in the type assertion.
RenderSQLTemplate(templates, key, stash) ==
  IF key \notin DOMAIN templates THEN <<"panic">>
  ELSE replace(replace(templates[key], templates), stash)

\* Rx.renderInsertQuery; make with the capacity len(m.Columns())-1 panics
\* when there is no column, and names[col] of a column that no field maps
\* to is a nil *FieldInfo, reading its Options panics.
renderInsertQuery(t, custom, table) ==
  LET cols == Columns(t, custom) IN
  IF Len(cols) = 0 THEN <<"panic">>
  ELSE IF \E k \in 1..Len(cols) : ~HasField(t, cols[k]) THEN <<"panic">>
  ELSE LET noAuto == noAutoColumns(t, cols, 1)
           stash == [columns |-> Join(noAuto, ","),
                     table |-> <<table>>,
                     placeholders |-> <<"(:">> \o Join(noAuto, ",:") \o <<")">>]
       IN RenderSQLTemplate(QueryTemplates, "INSERT", stash)

\* The columns the rendered INSERT names, read back from the query.
RECURSIVE Between(_, _, _, _)
Between(q, from, to, on) ==
  IF Len(q) = 0 THEN {}
  ELSE IF q[1] = to /\ on THEN {}
  ELSE IF q[1] = from THEN Between(Tail(q), from, to, TRUE)
  ELSE (IF on /\ q[1] \notin {",", ",:"} THEN {q[1]} ELSE {})
         \cup Between(Tail(q), from, to, on)

ColumnList(q) == Between(q, " (", ") VALUES ", FALSE)
PlaceholderList(q) == Between(q, "(:", ")", FALSE)

\* ----------------------------------------------------------------- Users
\* type Users struct { LoginName string; ID int32 `rx:"id,auto"` } on
\* CREATE TABLE users (id INTEGER PRIMARY KEY AUTOINCREMENT,
\*                     login_name varchar(100) UNIQUE)
UsersType == <<Field("login_name", "login_name", {}), Field("id", "id", {"auto"})>>
LoginNames == {"first", "second", "third"}
Users(id, n) == [ID |-> id, LoginName |-> n]
UsersSet == {Users(i, n) : i \in 0..MaxRows, n \in LoginNames}
DataSets == UNION {[1..n -> UsersSet] : n \in 0..MaxRecords}
UserRow(id, n) == [id |-> id, login_name |-> n]

\* The constraints of the table: id is the primary key, login_name UNIQUE.
Valid(tbl) ==
  \A r1, r2 \in tbl : (r1.id = r2.id \/ r1.login_name = r2.login_name) => r1 = r2

Out(tbl, sq, res, nb, np, ne, dn, nd) ==
  [users |-> tbl, seq |-> sq, result |-> res, nBegin |-> nb, nPrepare |-> np,
   nExec |-> ne, done |-> dn, nEnd |-> nd]

\* DB().NamedExec(query, m.Data()): one INSERT for all the records; a column
\* the query leaves out is given by the store.
RECURSIVE newRows(_, _, _, _)
newRows(cols, sq, d, k) ==
  IF k > Len(d) THEN {}
  ELSE {UserRow(IF \E c \in 1..Len(cols) : cols[c] = "id" THEN d[k].ID ELSE sq + k,
                d[k].LoginName)} \cup newRows(cols, sq, d, k + 1)

\* Rx.Insert; fault is a failure of the store.
Insert(tbl, sq, d, fault) ==
  IF Len(d) = 0 THEN Out(tbl, sq, "panic", 0, 0, 0, 0, 0)
  ELSE LET cols == noAutoColumns(UsersType, Columns(UsersType, NoColumns), 1)
           rows == newRows(cols, sq, d, 1)
           all == tbl \cup rows
       IN IF fault \/ Cardinality(rows) < Len(d) \/ rows \cap tbl # {} \/ ~Valid(all)
          THEN Out(tbl, sq, "error", 0, 0, 1, 0, 0)
          ELSE Out(all, sq + Len(d), "ok", 0, 0, 1, Len(d), 0)

\* namedStmt.Exec(row): UPDATE users SET login_name = :login_name WHERE ...
\* for the where clauses `id=:id` and `1`.
updateRow(tbl, row, where) ==
  LET new == {IF where = "id=:id" /\ r.id # row.ID THEN r
              ELSE [r EXCEPT !.login_name = row.LoginName] : r \in tbl}
  IN IF Valid(new) /\ Cardinality(new) = Cardinality(tbl)
     THEN [users |-> new, ok |-> TRUE]
     ELSE [users |-> tbl, ok |-> FALSE]

\* The loop over m.Data() inside the transaction (lines 521-527); xf = k
\* makes the statement of record k fail for an outside reason.
RECURSIVE execRows(_, _, _, _, _)
execRows(tbl, d, where, k, xf) ==
  IF k > Len(d) THEN [users |-> tbl, ok |-> TRUE, done |-> Len(d)]
  ELSE LET r == updateRow(tbl, d[k], where) IN
       IF xf = k \/ ~r.ok THEN [users |-> tbl, ok |-> FALSE, done |-> k - 1]
       ELSE execRows(r.users, d, where, k + 1, xf)

\* QueryTemplates after delete(QueryTemplates, `UPDATE`).
NoUpdateTemplate == [k \in DOMAIN QueryTemplates \ {"UPDATE"} |-> QueryTemplates[k]]

\* The query of Update for the column login_name.
renderUpdateQuery(templates, where) ==
  RenderSQLTemplate(templates, "UPDATE",
    [table |-> <<"users">>, SET |-> <<"SET login_name = :login_name">>,
     WHERE |-> <<"WHERE ", where>>])

\* Update that commits what it has when a statement fails.
UpdateNoRollback(templates, tbl, sq, d, where, prepOk, xf) ==
  IF Len(d) = 0 THEN Out(tbl, sq, "panic", 0, 0, 0, 0, 0)
  ELSE IF renderUpdateQuery(templates, where) = <<"panic">>
  THEN Out(tbl, sq, "panic", 1, 0, 0, 0, 1)
  ELSE IF ~prepOk THEN Out(tbl, sq, "error", 1, 1, 0, 0, 1)
  ELSE LET r == execRows(tbl, d, where, 1, xf) IN
       IF ~r.ok THEN Out(r.users, sq, "error", 1, 1, r.done + 1, r.done, 1)
       ELSE IF xf = Len(d) + 1 THEN Out(tbl, sq, "error", 1, 1, r.done, r.done, 1)
       ELSE Out(r.users, sq, "ok", 1, 1, r.done, r.done, 1)

\* Update that begins the transaction ahead of the test for records.
UpdateBeginFirst(templates, tbl, sq, d, where, prepOk, xf) ==
  IF Len(d) = 0 THEN Out(tbl, sq, "panic", 1, 0, 0, 0, 1)
  ELSE IF renderUpdateQuery(templates, where) = <<"panic">>
  THEN Out(tbl, sq, "panic", 1, 0, 0, 0, 1)
  ELSE IF ~prepOk THEN Out(tbl, sq, "error", 1, 1, 0, 0, 1)
  ELSE LET r == execRows(tbl, d, where, 1, xf) IN
       IF ~r.ok THEN Out(tbl, sq, "error", 1, 1, r.done + 1, r.done, 1)
       ELSE IF xf = Len(d) + 1 THEN Out(tbl, sq, "error", 1, 1, r.done, r.done, 1)
       ELSE Out(r.users, sq, "ok", 1, 1, r.done, r.done, 1)

\* Update without the deferred Rollback: the transaction ends with Commit
\* alone.
UpdateNoDefer(templates, tbl, sq, d, where, prepOk, xf) ==
  IF Len(d) = 0 THEN Out(tbl, sq, "panic", 0, 0, 0, 0, 0)
  ELSE IF renderUpdateQuery(templates, where) = <<"panic">>
  THEN Out(tbl, sq, "panic", 1, 0, 0, 0, 0)
  ELSE IF ~prepOk THEN Out(tbl, sq, "error", 1, 1, 0, 0, 0)
  ELSE LET r == execRows(tbl, d, where, 1, xf) IN
       IF ~r.ok THEN Out(tbl, sq, "error", 1, 1, r.done + 1, r.done, 0)
       ELSE IF xf = Len(d) + 1 THEN Out(tbl, sq, "error", 1, 1, r.done, r.done, 1)
       ELSE Out(r.users, sq, "ok", 1, 1, r.done, r.done, 1)

\* Rx.Update: the panic, MustBegin, the query (RenderSQLTemplate panics when
\* QueryTemplates, here templates, has no UPDATE), PrepareNamed, the loop,
\* Commit, and the deferred Rollback on every way out, which ends the
\* transaction that Commit has not ended.  prepOk is whether PrepareNamed
\* accepts the query; xf = Len(d) + 1 makes the commit fail.
Update(templates, tbl, sq, d, where, prepOk, xf) ==
  IF Len(d) = 0 THEN Out(tbl, sq, "panic", 0, 0, 0, 0, 0)
  ELSE IF renderUpdateQuery(templates, where) = <<"panic">>
  THEN Out(tbl, sq, "panic", 1, 0, 0, 0, 1)
  ELSE IF ~prepOk THEN Out(tbl, sq, "error", 1, 1, 0, 0, 1)
  ELSE LET r == execRows(tbl, d, where, 1, xf) IN
       IF ~r.ok THEN Out(tbl, sq, "error", 1, 1, r.done + 1, r.done, 1)
       ELSE IF xf = Len(d) + 1 THEN Out(tbl, sq, "error", 1, 1, r.done, r.done, 1)
       ELSE Out(r.users, sq, "ok", 1, 1, r.done, r.done, 1)

\* ------------------------------------------------------- Select and Get
\* A text is the sequence of its pieces: single characters where the code
\* looks at characters, longer pieces elsewhere.
\* regexp (?i:^\s*?where\s)
Space == {" ", "\t", "\n"}
Lower(c) ==
  CASE c = "W" -> "w" [] c = "H" -> "h" [] c = "E" -> "e" [] c = "R" -> "r"
    [] OTHER -> c
WhereKeyword == <<"w", "h", "e", "r", "e">>
isWhere(s) ==
  \E n \in 0..Len(s) :
    /\ Len(s) >= n + 6
    /\ \A i \in 1..n : s[i] \in Space
    /\ \A i \in 1..5 : Lower(s[n + i]) = WhereKeyword[i]
    /\ s[n + 6] \in Space

\* ifWhere without the test for an empty fragment.
ifWhereAlsoEmpty(where) ==
  IF ~isWhere(where) THEN <<"W", "H", "E", "R", "E", " ">> \o where ELSE where

\* ifWhere: sprintf(`WHERE %s`, where)
ifWhere(where) ==
  IF where # <<>> /\ ~isWhere(where)
  THEN <<"W", "H", "E", "R", "E", " ">> \o where
  ELSE where

\* strconv.Itoa for a number that is not negative, and the store reading it.
Digits == <<"0", "1", "2", "3", "4", "5", "6", "7", "8", "9">>
RECURSIVE Itoa(_)
Itoa(n) == IF n < 10 THEN <<Digits[n + 1]>>
           ELSE Itoa(n \div 10) \o <<Digits[(n % 10) + 1]>>
RECURSIVE Atoi(_)
Atoi(t) ==
  IF Len(t) = 0 THEN 0
  ELSE 10 * Atoi(SubSeq(t, 1, Len(t) - 1))
         + (CHOOSE d \in 0..9 : Digits[d + 1] = t[Len(t)])

DefaultLimit == 100
\* The bind data: the value it holds for the name id, if it holds one.
NoBind == <<>>
ZeroUsers == Users(0, "")

\* Rx.renderSelectTemplate
renderSelectTemplate(cols, table, where, lo) ==
  RenderSQLTemplate(QueryTemplates, "SELECT",
    [columns |-> Join(cols, ","), table |-> <<table>>, WHERE |-> ifWhere(where),
     limit |-> Itoa(lo[1]), offset |-> Itoa(lo[2])])

\* The store reading a SELECT: the text between the table and LIMIT is the
\* where clause, then come the limit and the offset.
Pos(q, piece) == CHOOSE i \in 1..Len(q) : q[i] = piece /\ \A j \in 1..(i - 1) : q[j] # piece
WhereOf(q) == SubSeq(q, Pos(q, " FROM ") + 3, Pos(q, " LIMIT ") - 1)
LimitOf(q) == Atoi(SubSeq(q, Pos(q, " LIMIT ") + 1, Pos(q, " OFFSET ") - 1))
OffsetOf(q) == Atoi(SubSeq(q, Pos(q, " OFFSET ") + 1, Len(q)))

\* The conditions of the where clauses, over the named parameter :id.
Conditions == {"id=:id", "id>:id"}
NamesId(q) == \E i \in 1..Len(q) : q[i] \in Conditions
WellFormed(w) == w = <<>> \/ (Len(w) = 7 /\ isWhere(w) /\ w[7] \in Conditions)
Matches(r, w, bind) ==
  \/ w = <<>>
  \/ w[7] = "id=:id" /\ r.id = bind[1]
  \/ w[7] = "id>:id" /\ r.id > bind[1]

\* The rows in the order of their id, as records of Users.
RECURSIVE ById(_)
ById(rows) ==
  IF rows = {} THEN <<>>
  ELSE LET r == CHOOSE x \in rows : \A y \in rows : x.id <= y.id
       IN <<Users(r.id, r.login_name)>> \o ById(rows \ {r})

Window(s, limit, offset) ==
  SubSeq(s, offset + 1, IF offset + limit < Len(s) THEN offset + limit ELSE Len(s))

\* The store answering without the where clause.
queryRowsAll(tbl, q, bind) ==
  Window(ById(tbl), LimitOf(q), OffsetOf(q))

queryRows(tbl, q, bind) ==
  Window(ById({r \in tbl : Matches(r, WhereOf(q), bind)}), LimitOf(q), OffsetOf(q))

SelOut(d, q, r, e, res) == [data |-> d, query |-> q, ret |-> r, err |-> e, result |-> res]

\* Select that returns the records and keeps the data the mapper held.
SelectKeepData(tbl, d, where, bind, limitAndOffset, fault) ==
  LET lo == IF Len(limitAndOffset) = 0 THEN <<DefaultLimit, 0>>
            ELSE IF Len(limitAndOffset) = 1 THEN <<limitAndOffset[1], 0>>
            ELSE limitAndOffset
      query == renderSelectTemplate(Columns(UsersType, NoColumns), "users", where, lo)
  IN IF lo[1] < 1 THEN SelOut(d, query, <<>>, "nil", "panic")
     ELSE IF NamesId(query) /\ bind = NoBind
     THEN SelOut(<<ZeroUsers>>, query, <<>>, "bind", "error")
     ELSE IF ~WellFormed(WhereOf(query))
     THEN SelOut(<<ZeroUsers>>, query, <<ZeroUsers>>, "syntax", "error")
     ELSE IF fault THEN SelOut(<<ZeroUsers>>, query, <<ZeroUsers>>, "store", "error")
     ELSE LET rows == queryRows(tbl, query, bind)
          IN SelOut(d, query, rows, "nil", "ok")

\* Rx.Select: the defaults of limit and offset, the query, m.data made with
\* one zero record (make panics when the limit is below one), the named
\* binding, and DB().Select scanning the rows into m.data from its start.
\* The returned m.data is read when the call of DB().Select has returned.
Select(tbl, d, where, bind, limitAndOffset, fault) ==
  LET lo == IF Len(limitAndOffset) = 0 THEN <<DefaultLimit, 0>>
            ELSE IF Len(limitAndOffset) = 1 THEN <<limitAndOffset[1], 0>>
            ELSE limitAndOffset
      query == renderSelectTemplate(Columns(UsersType, NoColumns), "users", where, lo)
  IN IF lo[1] < 1 THEN SelOut(d, query, <<>>, "nil", "panic")
     ELSE IF NamesId(query) /\ bind = NoBind
     THEN SelOut(<<ZeroUsers>>, query, <<>>, "bind", "error")
     ELSE IF ~WellFormed(WhereOf(query))
     THEN SelOut(<<ZeroUsers>>, query, <<ZeroUsers>>, "syntax", "error")
     ELSE IF fault THEN SelOut(<<ZeroUsers>>, query, <<ZeroUsers>>, "store", "error")
     ELSE LET rows == queryRows(tbl, query, bind)
          IN SelOut(rows, query, rows, "nil", "ok")

\* Get that reports no matching row as no error.
GetNoRowsNil(tbl, d, where, bind, fault) ==
  LET query == renderSelectTemplate(Columns(UsersType, NoColumns), "users", where, <<1, 0>>)
  IN IF NamesId(query) /\ bind = NoBind THEN SelOut(d, query, <<>>, "bind", "error")
     ELSE IF ~WellFormed(WhereOf(query))
     THEN SelOut(d, query, <<ZeroUsers>>, "syntax", "error")
     ELSE IF fault THEN SelOut(d, query, <<ZeroUsers>>, "store", "error")
     ELSE LET rows == queryRows(tbl, query, bind)
          IN IF rows = <<>> THEN SelOut(d, query, <<ZeroUsers>>, "nil", "ok")
             ELSE SelOut(d, query, rows, "nil", "ok")

\* Rx.Get: the SELECT of Select with limit 1 and offset 0, the named binding
\* (a nil record on its error), then DB().Get into a new record, which ends
\* in sql.ErrNoRows when no row matches.
Get(tbl, d, where, bind, fault) ==
  LET query == renderSelectTemplate(Columns(UsersType, NoColumns), "users", where, <<1, 0>>)
  IN IF NamesId(query) /\ bind = NoBind THEN SelOut(d, query, <<>>, "bind", "error")
     ELSE IF ~WellFormed(WhereOf(query))
     THEN SelOut(d, query, <<ZeroUsers>>, "syntax", "error")
     ELSE IF fault THEN SelOut(d, query, <<ZeroUsers>>, "store", "error")
     ELSE LET rows == queryRows(tbl, query, bind)
          IN IF rows = <<>> THEN SelOut(d, query, <<ZeroUsers>>, "norows", "error")
             ELSE SelOut(d, query, rows, "nil", "ok")

NoArgs == [where |-> <<>>, bind |-> NoBind, lo |-> <<>>, rows |-> <<>>]
IdleSel ==
  /\ rxArgs = NoArgs
  /\ rxQuery = <<>>
  /\ ret = <<>>
  /\ rxErr = "nil"

\* A call other than Select and Get, with the rows it was given, leaves
\* nothing of an earlier Select or Get.
ResetSel(rows) ==
  /\ rxArgs' = [NoArgs EXCEPT !.rows = rows]
  /\ rxQuery' = <<>>
  /\ ret' = <<>>
  /\ rxErr' = "nil"

IdleRx ==
  /\ users = {}
  /\ seq = 0
  /\ data = <<>>
  /\ rxOp = "none"
  /\ rxResult = "none"
  /\ users0 = {}
  /\ nBegin = 0
  /\ nPrepare = 0
  /\ nExec = 0
  /\ done = 0
  /\ nEnd = 0
  /\ IdleSel

\* NewRx(rows...) for the type Users: the registered mapper gets the rows.
NewRx(rows) ==
  /\ data' = rows
  /\ rxOp' = "NewRx"
  /\ rxResult' = "none"
  /\ users0' = users
  /\ nBegin' = 0 /\ nPrepare' = 0 /\ nExec' = 0 /\ done' = 0 /\ nEnd' = 0
  /\ ResetSel(rows)
  /\ UNCHANGED <<users, seq, singleDB, migRest, insVars>>

Finish(op, r, opened) ==
  /\ rxOp' = op
  /\ rxResult' = r.result
  /\ users' = r.users
  /\ seq' = r.seq
  /\ users0' = users
  /\ nBegin' = r.nBegin /\ nPrepare' = r.nPrepare /\ nExec' = r.nExec
  /\ done' = r.done
  /\ nEnd' = r.nEnd
  /\ singleDB' = IF opened /\ singleDB = NoDB THEN DSN ELSE singleDB
  /\ ResetSel(<<>>)
  /\ UNCHANGED <<data, migRest, insVars>>

RxInsert(fault) ==
  /\ seq + Len(data) <= MaxRows
  /\ LET r == Insert(users, seq, data, fault) IN
     /\ fault => Insert(users, seq, data, FALSE).result = "ok"
     /\ Finish("Insert", r, r.result # "panic")

RxUpdate(templates, where, prepOk, xf) ==
  /\ xf \in 0..(Len(data) + 1)
  /\ LET r == Update(templates, users, seq, data, where, prepOk, xf) IN
     /\ xf # 0 => (prepOk /\ execRows(users, data, where, 1, 0).done >= xf - 1)
     /\ "UPDATE" \notin DOMAIN templates => (prepOk /\ xf = 0)
     /\ Finish("Update", r, r.nBegin > 0)

\* SetData(rows) on the mapper of Users.
RxSetData(rows) ==
  /\ data' = rows
  /\ rxOp' = "SetData"
  /\ rxResult' = "none"
  /\ users0' = users
  /\ nBegin' = 0 /\ nPrepare' = 0 /\ nExec' = 0 /\ done' = 0 /\ nEnd' = 0
  /\ ResetSel(rows)
  /\ UNCHANGED <<users, seq, singleDB, migRest, insVars>>

\* What Select and Get leave behind; both reach DB() through Columns().
Selected(op, r, where, bind, lo) ==
  /\ rxOp' = op
  /\ rxResult' = r.result
  /\ data' = r.data
  /\ rxArgs' = [where |-> where, bind |-> bind, lo |-> lo, rows |-> <<>>]
  /\ rxQuery' = r.query
  /\ ret' = r.ret
  /\ rxErr' = r.err
  /\ users0' = users
  /\ nBegin' = 0 /\ nPrepare' = 0 /\ nExec' = 0 /\ done' = 0 /\ nEnd' = 0
  /\ singleDB' = IF singleDB = NoDB THEN DSN ELSE singleDB
  /\ UNCHANGED <<users, seq, migRest, insVars>>

RxSelect(where, bind, lo, fault) ==
  \E r \in {Select(users, data, where, bind, lo, fault)} :
    /\ fault => r.err = "store"
    /\ Selected("Select", r, where, bind, lo)

RxGet(where, bind, fault) ==
  \E r \in {Get(users, data, where, bind, fault)} :
    /\ fault => r.err = "store"
    /\ Selected("Get", r, where, bind, <<1, 0>>)

NextRx ==
  \/ \E rows \in DataSets : NewRx(rows)
  \/ \E fault \in BOOLEAN : RxInsert(fault)
  \/ \E where \in {"id=:id", "1"}, prepOk \in BOOLEAN, xf \in 0..(MaxRecords + 2) :
       RxUpdate(QueryTemplates, where, prepOk, xf)

\* ------------------------------------------------------- Rx[R].Insert
Values == {0, 7}
RecordData(t) == UNION {[1..n -> [1..Len(t) -> Values]] : n \in 0..1}

IdleWhere ==
  /\ wIn = <<>>
  /\ wOut = <<>>
  /\ wAgain = <<>>
  /\ wPc = 0

IdleName ==
  /\ nIn = <<>>
  /\ nSnake = <<>>
  /\ nCamel = <<>>
  /\ nPc = 0
  /\ nSet = <<>>

IdleRender ==
  /\ tDict = [A |-> <<>>, B |-> <<>>]
  /\ tStash = [x |-> <<>>]
  /\ tKey = ""
  /\ tSql = <<>>
  /\ tOnce = <<>>
  /\ tTwice = <<>>
  /\ tPc = "text"

IdlePath ==
  /\ pPath = <<>>
  /\ pRes = "none"
  /\ pPc = 0

IdleFn == IdleWhere /\ IdleName /\ IdleRender /\ IdlePath

\* --------------------------------------------------------------- ifWhere
\* The fragments: every sequence of at most MaxWhereLen of these characters,
\* written one character at a time.
WhereChars == {"w", "H", "e", "R", " ", "x"}

InitWhere == IdleWhere

WhereChar(c) ==
  /\ wPc = 0
  /\ Len(wIn) < MaxWhereLen
  /\ wIn' = Append(wIn, c)
  /\ UNCHANGED <<wOut, wAgain, wPc, nameVars, migVars, rxVars, insRest, renderVars, pathVars>>

\* The fragment goes through ifWhere when a query is rendered ...
WhereOnce ==
  /\ wPc = 0
  /\ wOut' = ifWhere(wIn)
  /\ wPc' = 1
  /\ UNCHANGED <<wIn, wAgain, nameVars, migVars, rxVars, insRest, renderVars, pathVars>>

\* ... and its result when it is given to a query again.
WhereAgain ==
  /\ wPc = 1
  /\ wAgain' = ifWhere(wOut)
  /\ wPc' = 2
  /\ UNCHANGED <<wIn, wOut, nameVars, migVars, rxVars, insRest, renderVars, pathVars>>

NextWhere ==
  \/ \E c \in WhereChars : WhereChar(c)
  \/ WhereOnce
  \/ WhereAgain

\* ------------------------------------------------- CamelToSnake, SnakeToCamel
\* unicode.IsUpper, unicode.ToLower and unicode.ToUpper on the runes used.
Letters == {<<"U", "u">>, <<"I", "i">>, <<"D", "d">>, <<"S", "s">>,
            <<"E", "e">>, <<"R", "r">>}
IsUpper(r) == \E p \in Letters : p[1] = r
IsLower(r) == \E p \in Letters : p[2] = r
ToLower(r) == IF IsUpper(r) THEN (CHOOSE p \in Letters : p[1] = r)[2] ELSE r
ToUpper(r) == IF IsLower(r) THEN (CHOOSE p \in Letters : p[2] = r)[1] ELSE r
ToLowerAll(t) == [i \in 1..Len(t) |-> ToLower(t[i])]
ToUpperAll(t) == [i \in 1..Len(t) |-> ToUpper(t[i])]

connector == "_"

\* lowerLetter: what it writes and the flags it returns.
lowerLetter(snake, r, begins, wasUpper) ==
  IF IsUpper(r) /\ ~begins
  THEN [snake |-> snake \o <<connector, ToLower(r)>>, begins |-> TRUE, wasUpper |-> TRUE]
  ELSE IF begins /\ wasUpper
  THEN [snake |-> Append(snake, ToLower(r)), begins |-> FALSE, wasUpper |-> FALSE]
  ELSE [snake |-> Append(snake, r), begins |-> begins, wasUpper |-> wasUpper]

\* The loop of CamelToSnake over the runes from position k.
RECURSIVE snakeLoop(_, _, _)
snakeLoop(runes, k, st) ==
  IF k > Len(runes) THEN st.snake
  ELSE snakeLoop(runes, k + 1, lowerLetter(st.snake, runes[k], st.begins, st.wasUpper))

CamelToSnake(text) ==
  IF Len(text) = 2 THEN ToLowerAll(text)
  ELSE snakeLoop(text, 1, [snake |-> <<>>, begins |-> TRUE, wasUpper |-> TRUE])

\* isCommonInitialism: the words of its list that the runes used can spell.
Initialisms == {<<"i", "d">>, <<"u", "i">>, <<"u", "i", "d">>,
                <<"u", "u", "i", "d">>, <<"u", "r", "i">>}
isCommonInitialism(word) == word \in Initialisms

\* strings.Split(s, `_`)
RECURSIVE Split(_, _)
Split(t, word) ==
  IF Len(t) = 0 THEN <<word>>
  ELSE IF t[1] = connector THEN <<word>> \o Split(Tail(t), <<>>)
  ELSE Split(Tail(t), Append(word, t[1]))

\* A word of SnakeToCamel whose first rune is left as it is.
camelWordKeepFirst(word) ==
  IF isCommonInitialism(word) THEN ToUpperAll(word)
  ELSE IF Len(word) = 0 THEN <<"panic">>
  ELSE <<word[1]>> \o ToLowerAll(Tail(word))

\* One word of SnakeToCamel; runes[0] of an empty word is out of range.
camelWord(word) ==
  IF isCommonInitialism(word) THEN ToUpperAll(word)
  ELSE IF Len(word) = 0 THEN <<"panic">>
  ELSE <<ToUpper(word[1])>> \o ToLowerAll(Tail(word))

RECURSIVE camelWords(_, _)
camelWords(ws, k) ==
  IF k > Len(ws) THEN <<>>
  ELSE LET w == camelWord(ws[k]) rest == camelWords(ws, k + 1)
       IN IF w = <<"panic">> \/ rest = <<"panic">> THEN <<"panic">> ELSE w \o rest

SnakeToCamel(snake) ==
  IF Len(snake) = 2 THEN ToUpperAll(snake)
  ELSE camelWords(Split(snake, <<>>), 1)

\* The names: every sequence of at most MaxNameLen of these runes, written
\* one rune at a time.
NameRunes == {"U", "I", "D", "s", "e", "r", "d"}

InitNames == IdleName

NameRune(r) ==
  /\ nPc = 0
  /\ Len(nIn) < MaxNameLen
  /\ nIn' = Append(nIn, r)
  /\ UNCHANGED <<nSnake, nCamel, nPc, nSet, whereVars, migVars, rxVars, insRest, renderVars, pathVars>>

ToSnake ==
  /\ nPc = 0
  /\ nSnake' = CamelToSnake(nIn)
  /\ nPc' = 1
  /\ UNCHANGED <<nIn, nCamel, nSet, whereVars, migVars, rxVars, insRest, renderVars, pathVars>>

ToCamel ==
  /\ nPc = 1
  /\ nCamel' = SnakeToCamel(nSnake)
  /\ nPc' = 2
  /\ UNCHANGED <<nIn, nSnake, nSet, whereVars, migVars, rxVars, insRest, renderVars, pathVars>>

\* SQLForSET: SET, then for each column, made snake_case when the first of
\* its runes is upper case (the loop over the runes is left after the
\* first), the text " v = :v,"; the last comma is trimmed.
setColumn(v) ==
  IF v # <<>> /\ IsUpper(v[1]) THEN CamelToSnake(v) ELSE v

RECURSIVE writeSet(_)
writeSet(columns) ==
  IF columns = <<>> THEN <<>>
  ELSE <<" ">> \o setColumn(Head(columns)) \o <<" ", "=", " ", ":">>
         \o setColumn(Head(columns)) \o <<",">> \o writeSet(Tail(columns))

TrimSuffix(s, c) ==
  IF s # <<>> /\ s[Len(s)] = c THEN SubSeq(s, 1, Len(s) - 1) ELSE s

SQLForSET(columns) == TrimSuffix(<<"S", "E", "T">> \o writeSet(columns), ",")

\* The lists of columns given to SQLForSET: the name alone, and the name
\* before and after a column that is in snake_case already.
IdColumn == <<"i", "d">>
ColumnLists(v) == {<<v>>, <<v, IdColumn>>, <<IdColumn, v>>}

ForSET(columns) ==
  /\ nPc = 2
  /\ nSet' = SQLForSET(columns)
  /\ nPc' = 3
  /\ UNCHANGED <<nIn, nSnake, nCamel, whereVars, migVars, rxVars, insRest, renderVars, pathVars>>

NextNames ==
  \/ \E r \in NameRunes : NameRune(r)
  \/ ToSnake
  \/ ToCamel
  \/ \E columns \in ColumnLists(nIn) : ForSET(columns)

\* -------------------------------------------------------------- safeOpen
\* The paths: every sequence of at most MaxPathLen of these characters,
\* written one character at a time; the working directory is /a.
PathChars == {"/", ".", "a"}
cwd == <<"/", "a">>

\* The elements of a path: what stands between its separators.
RECURSIVE elements(_, _)
elements(path, el) ==
  IF path = <<>> THEN (IF el = <<>> THEN <<>> ELSE <<el>>)
  ELSE IF Head(path) = "/"
         THEN (IF el = <<>> THEN <<>> ELSE <<el>>) \o elements(Tail(path), <<>>)
         ELSE elements(Tail(path), Append(el, Head(path)))

IsAbs(path) == path # <<>> /\ path[1] = "/"

\* filepath.Clean on the elements: . is dropped, .. takes the element
\* before it away, is dropped at the root and is kept at the start of a
\* path that is not rooted.
RECURSIVE cleanElements(_, _, _)
cleanElements(els, out, rooted) ==
  IF els = <<>> THEN out
  ELSE IF Head(els) = <<".">> THEN cleanElements(Tail(els), out, rooted)
  ELSE IF Head(els) = <<".", ".">>
    THEN IF out # <<>> /\ out[Len(out)] # <<".", ".">>
           THEN cleanElements(Tail(els), SubSeq(out, 1, Len(out) - 1), rooted)
         ELSE IF rooted THEN cleanElements(Tail(els), out, rooted)
         ELSE cleanElements(Tail(els), Append(out, Head(els)), rooted)
  ELSE cleanElements(Tail(els), Append(out, Head(els)), rooted)

RECURSIVE joinElements(_)
joinElements(els) ==
  IF els = <<>> THEN <<>>
  ELSE IF Len(els) = 1 THEN els[1]
  ELSE els[1] \o <<"/">> \o joinElements(Tail(els))

\* filepath.Clean
Clean(path) ==
  LET out == cleanElements(elements(path, <<>>), <<>>, IsAbs(path)) IN
  IF IsAbs(path) THEN <<"/">> \o joinElements(out)
  ELSE IF out = <<>> THEN <<".">>
  ELSE joinElements(out)

\* filepath.Abs: a rooted path cleaned, else the path joined to the
\* working directory.
Abs(path) ==
  IF IsAbs(path) THEN Clean(path) ELSE Clean(cwd \o <<"/">> \o path)

HasPrefix(s, prefix) ==
  Len(s) >= Len(prefix) /\ SubSeq(s, 1, Len(prefix)) = prefix

\* safeOpen: found tells whether os.Open finds the file.
safeOpen(filePath, found) ==
  IF ~HasPrefix(Abs(Clean(filePath)), cwd) THEN "panic"
  ELSE IF found THEN "opened"
  ELSE "error"

InitOpen == IdlePath

PathChar(c) ==
  /\ pPc = 0
  /\ Len(pPath) < MaxPathLen
  /\ pPath' = Append(pPath, c)
  /\ UNCHANGED <<pRes, pPc, whereVars, nameVars, renderVars, migVars, rxVars, insRest>>

SafeOpen(found) ==
  /\ pPc = 0
  /\ pRes' = safeOpen(pPath, found)
  /\ pPc' = 1
  /\ UNCHANGED <<pPath, whereVars, nameVars, renderVars, migVars, rxVars, insRest>>

NextOpen ==
  \/ \E c \in PathChars : PathChar(c)
  \/ \E found \in BOOLEAN : SafeOpen(found)

\* ------------------------------------------------------------- rendering
\* The pieces a template is written with: the tags, the keys A and B of
\* QueryTemplates and the name x of the stash; a name outside a placeholder
\* is plain text.
TemplateKeys == {"A", "B"}
TextPieces == {startTag, endTag, "A", "B", "x"}
\* What the other entry of QueryTemplates and the stash hold: a plain text
\* or the placeholder of a key or of a name.
TemplateValues == {<<n>> : n \in {"A", "B", "x"}}
            \cup {<<startTag, n, endTag>> : n \in {"A", "B", "x"}}
\* The stash binds x, and with it or without it the name of the key A.
Stashes == [{"x"} -> TemplateValues] \cup [{"A", "x"} -> TemplateValues]

InitRender ==
  /\ tDict \in {[A |-> <<>>, B |-> v] : v \in TemplateValues}
  /\ tStash \in Stashes
  /\ tKey = ""
  /\ tSql = <<>>
  /\ tOnce = <<>>
  /\ tTwice = <<>>
  /\ tPc = "text"

\* The template under the key A is written piece by piece.
TextPiece(c) ==
  /\ tPc = "text"
  /\ Len(tDict.A) < MaxTextLen
  /\ tDict' = [tDict EXCEPT !.A = Append(@, c)]
  /\ UNCHANGED <<tStash, tKey, tSql, tOnce, tTwice, tPc, pathVars, whereVars, nameVars,
                 migVars, rxVars, insRest>>

\* RenderSQLTemplate(key, tStash)
Render(key) ==
  /\ tPc = "text"
  /\ tKey' = key
  /\ tSql' = RenderSQLTemplate(tDict, key, tStash)
  /\ tPc' = "rendered"
  /\ UNCHANGED <<tDict, tStash, tOnce, tTwice, pathVars, whereVars, nameVars, migVars,
                 rxVars, insRest>>

\* replace(text, "${", "}", tStash) of the template under A ...
ReplaceOnce ==
  /\ tPc = "text"
  /\ tOnce' = replace(tDict.A, tStash)
  /\ tPc' = "once"
  /\ UNCHANGED <<tDict, tStash, tKey, tSql, tTwice, pathVars, whereVars, nameVars,
                 migVars, rxVars, insRest>>

\* ... and of what it gave.
ReplaceAgain ==
  /\ tPc = "once"
  /\ tTwice' = replace(tOnce, tStash)
  /\ tPc' = "twice"
  /\ UNCHANGED <<tDict, tStash, tKey, tSql, tOnce, pathVars, whereVars, nameVars,
                 migVars, rxVars, insRest>>

NextRender ==
  \/ \E c \in TextPieces : TextPiece(c)
  \/ \E key \in TemplateKeys \cup {"C"} : Render(key)
  \/ ReplaceOnce
  \/ ReplaceAgain

\* ------------------------------------------- the mapper of a type R
\* The Table() method a record type has of its own, and the names of the
\* record types; a record type has a name.
NoTable == [has |-> FALSE, table |-> ""]
CustomTables == {NoTable, [has |-> TRUE, table |-> "users"]}
TypeNames == {<<"U", "s", "e", "r">>, <<"U", "s", "e", "r", "I", "D">>,
              <<"I", "D", "U", "s", "e", "r">>}

\* The record types of the fields id, login_name and the embedded mapper:
\* those of one field and those that embed the mapper.
MetaFields == {Field("id", "id", {}), Field("id", "id", {"auto"}),
               Field("login_name", "login_name", {}), Field("rx", "rx", {})}
MetaTypes == {t \in RecordTypes :
                /\ \A k \in 1..Len(t) : t[k] \in MetaFields
                /\ Len(t) = 1 \/ Embeds(t)}

\* The string of a sequence of runes.
RECURSIVE Text(_)
Text(runes) == IF runes = <<>> THEN "" ELSE runes[1] \o Text(Tail(runes))

\* TypeToSnake: CamelToSnake of type2str, the name of the type.
TypeToSnake(name) == Text(CamelToSnake(name))

\* Table that asks the record type whenever it has the method: the type
\* that embeds Rx has it from Rx, and the call comes back here.
TableAsksEmbedded(table, name, t, meta) ==
  IF table # "" THEN table
  ELSE IF Embeds(t) THEN "stack overflow"
  ELSE IF meta.has THEN meta.table
  ELSE TypeToSnake(name)

\* Rx.Table
Table(table, name, t, meta) ==
  IF table # "" THEN table
  ELSE IF ~Embeds(t) /\ meta.has THEN meta.table
  ELSE TypeToSnake(name)

IdleInsRest ==
  /\ rtype = <<>>
  /\ rcustom = NoColumns
  /\ rcolumns = <<>>
  /\ rdata = <<>>
  /\ rquery = <<>>
  /\ rresult = "none"
  /\ rrows = <<>>
  /\ rname = <<>>
  /\ rmeta = NoTable
  /\ rtable = ""
  /\ rop = "none"
  /\ tableRet = "none"
  /\ colsRet = <<"none">>

IdleIns == IdleFn /\ IdleInsRest

\* The mapper of a type named R that has no Table() of its own.
InitIns ==
  /\ IdleFn
  /\ rtype \in RecordTypes
  /\ rcustom \in CustomColumns
  /\ rcolumns = <<>>
  /\ rdata = <<>>
  /\ rquery = <<>>
  /\ rresult = "none"
  /\ rrows = <<>>
  /\ rname = <<"R">>
  /\ rmeta = NoTable
  /\ rtable = ""
  /\ rop = "none"
  /\ tableRet = "none"
  /\ colsRet = <<"none">>

\* The mapper of a named type with or without a Table() of its own.
InitMeta ==
  /\ IdleFn
  /\ rtype \in MetaTypes
  /\ rcustom \in CustomColumns
  /\ rcolumns = <<>>
  /\ rdata = <<>>
  /\ rquery = <<>>
  /\ rresult = "none"
  /\ rrows = <<>>
  /\ rname \in TypeNames
  /\ rmeta \in CustomTables
  /\ rtable = ""
  /\ rop = "none"
  /\ tableRet = "none"
  /\ colsRet = <<"none">>

\* What a call on the mapper of R leaves behind.
Called(op, tbl, cols, d, q, res, rows, tret, cret, opened) ==
  /\ rop' = op
  /\ rtable' = tbl
  /\ rcolumns' = cols
  /\ rdata' = d
  /\ rquery' = q
  /\ rresult' = res
  /\ rrows' = rows
  /\ tableRet' = tret
  /\ colsRet' = cret
  /\ singleDB' = IF opened /\ singleDB = NoDB THEN DSN ELSE singleDB
  /\ UNCHANGED <<rtype, rcustom, rname, rmeta, fnVars, migRest, rxVars>>

\* m.Table() and m.Columns() as the mapper of R would answer now.
TableNow == Table(rtable, rname, rtype, rmeta)
ColumnsNow == IF Len(rcolumns) > 0 THEN rcolumns ELSE Columns(rtype, rcustom)

\* Rx.Table: the name is computed by the first call and kept in m.table.
TableR ==
  Called("Table", TableNow, rcolumns, rdata, rquery, rresult, rrows,
         TableNow, colsRet, FALSE)

\* Rx.Columns: the names are computed by the first call and kept in
\* m.columns; while m.columns is empty every call computes them again.
ColumnsR ==
  Called("Columns", rtable, ColumnsNow, rdata, rquery, rresult, rrows,
         tableRet, ColumnsNow, FALSE)

\* SetData(data)
SetDataR(d) ==
  Called("SetData", rtable, rcolumns, d, <<>>, "none", rrows, tableRet, colsRet,
         FALSE)

\* The value a record binds to the named parameter of a column.
Bound(t, rec, col) == rec[CHOOSE k \in 1..Len(t) : t[k].path = col]

\* Rx.Insert for R: the panic on no data, renderInsertQuery, NamedExec.
\* renderInsertQuery asks for the columns first and for the table when the
\* columns are gone through.
InsertR(fault) ==
  IF Len(rdata) = 0
  THEN /\ ~fault
       /\ Called("Insert", rtable, rcolumns, rdata, <<>>, "panic", rrows,
                 tableRet, colsRet, FALSE)
  ELSE LET q == renderInsertQuery(rtype, rcustom, TableNow)
           cols == ColumnList(q)
       IN /\ Len(rrows) + Len(rdata) <= 1
          /\ IF q = <<"panic">>
             THEN /\ ~fault
                  /\ Called("Insert", rtable, ColumnsNow, rdata, q, "panic", rrows,
                            tableRet, colsRet, FALSE)
             ELSE IF fault \/ cols = {}
             THEN Called("Insert", TableNow, ColumnsNow, rdata, q, "error", rrows,
                         tableRet, colsRet, TRUE)
             ELSE Called("Insert", TableNow, ColumnsNow, rdata, q, "ok",
                         rrows \o [k \in 1..Len(rdata) |->
                                     [c \in cols |-> Bound(rtype, rdata[k], c)]],
                         tableRet, colsRet, TRUE)

\* The record of R a row of the store is scanned into.
Scanned(t, row) ==
  [k \in 1..Len(t) |-> IF t[k].path \in DOMAIN row THEN row[t[k].path] ELSE 0]
ZeroRecord(t) == [k \in 1..Len(t) |-> 0]
NoSuchColumn(t, cols) == \E c \in 1..Len(cols) : ~HasField(t, cols[c])

\* Rx.Select for R with no where fragment: m.data is made anew, then the
\* store fills it; the store fails on a column the table has not.
SelectR(fault) ==
  /\ NoSuchColumn(rtype, ColumnsNow) => fault
  /\ Called("Select", TableNow, ColumnsNow,
            IF fault THEN <<ZeroRecord(rtype)>>
            ELSE [k \in 1..Len(rrows) |-> Scanned(rtype, rrows[k])],
            renderSelectTemplate(ColumnsNow, TableNow, <<>>, <<DefaultLimit, 0>>),
            IF fault THEN "error" ELSE "ok", rrows, tableRet, colsRet, TRUE)

\* Get that makes the mapper anew with its record: the table name and the
\* columns it had kept are gone.
GetRForgets(fault) ==
  /\ NoSuchColumn(rtype, ColumnsNow) => fault
  /\ Called("Get", "", <<>>, rdata,
            renderSelectTemplate(ColumnsNow, TableNow, <<>>, <<1, 0>>),
            IF fault \/ rrows = <<>> THEN "error" ELSE "ok", rrows, tableRet,
            colsRet, TRUE)

\* Rx.Get for R with no where fragment: m.r is a new R, m.data stays.
GetR(fault) ==
  /\ NoSuchColumn(rtype, ColumnsNow) => fault
  /\ Called("Get", TableNow, ColumnsNow, rdata,
            renderSelectTemplate(ColumnsNow, TableNow, <<>>, <<1, 0>>),
            IF fault \/ rrows = <<>> THEN "error" ELSE "ok", rrows, tableRet,
            colsRet, TRUE)

\* Rx.Update for R with no where fragment, for no field or for the field id:
\* the statement with no field is not prepared, a record without the field
\* does not bind; the rows are changed when the transaction is committed.
UpdateR(fields, fault) ==
  IF Len(rdata) = 0
  THEN /\ ~fault
       /\ Called("Update", rtable, rcolumns, rdata, <<>>, "panic", rrows,
                 tableRet, colsRet, FALSE)
  ELSE LET q == RenderSQLTemplate(QueryTemplates, "UPDATE",
                  [table |-> <<TableNow>>, SET |-> SQLForSET(fields),
                   WHERE |-> <<>>])
           failed == fault \/ fields = <<>> \/ ~HasField(rtype, "id")
       IN /\ (fields = <<>> \/ ~HasField(rtype, "id")) => ~fault
          /\ Called("Update", TableNow, rcolumns, rdata, q,
                    IF failed THEN "error" ELSE "ok",
                    IF failed THEN rrows
                    ELSE [k \in 1..Len(rrows) |->
                            [c \in DOMAIN rrows[k] \cup {"id"} |->
                               IF c = "id" THEN Bound(rtype, rdata[Len(rdata)], "id")
                               ELSE rrows[k][c]]],
                    tableRet, colsRet, TRUE)

\* Rx.Delete for R with no where fragment.
DeleteR(fault) ==
  Called("Delete", TableNow, rcolumns, rdata,
         RenderSQLTemplate(QueryTemplates, "DELETE",
                           [table |-> <<TableNow>>, WHERE |-> <<>>]),
         IF fault THEN "error" ELSE "ok",
         IF fault THEN rrows ELSE <<>>, tableRet, colsRet, TRUE)

NextIns ==
  \/ ColumnsR
  \/ \E d \in RecordData(rtype) : SetDataR(d)
  \/ \E fault \in BOOLEAN : InsertR(fault)

NextMeta ==
  \/ TableR
  \/ ColumnsR
  \/ \E d \in RecordData(rtype) : SetDataR(d)
  \/ \E fault \in BOOLEAN : InsertR(fault)
  \/ \E fault \in BOOLEAN : SelectR(fault)
  \/ \E fault \in BOOLEAN : GetR(fault)
  \/ \E fields \in {<<>>, <<IdColumn>>}, fault \in BOOLEAN : UpdateR(fields, fault)
  \/ \E fault \in BOOLEAN : DeleteR(fault)

\* ------------------------------------------------------------------ specs
IdleMig ==
  /\ file = <<>>
  /\ tables = {}
  /\ ledger = <<>>
  /\ DSN = DefaultDSN
  /\ singleDB = NoDB
  /\ pc = "idle"
  /\ direction = ""
  /\ migrations = <<>>
  /\ idx = 0
  /\ err = "nil"
  /\ ledger0 = <<>>
  /\ getFailed = {}
  /\ log = <<>>
  /\ clean = TRUE
  /\ calls = <<>>
  /\ execCount = <<>>
  /\ faults = 0

\* The migration runner.
Init == InitMig /\ IdleRx /\ IdleIns
Next == NextMig
Spec == Init /\ [][Next]_vars

\* The mapper of Users.
InitRx == IdleMig /\ IdleRx /\ IdleIns
SpecRx == InitRx /\ [][NextRx]_vars

\* A run of the migration runner on a file, or a run of the mapper of Users
\* when there is no file and no Migrate, with an Update after
\* delete(QueryTemplates, `UPDATE`).
NoMigrate == file = <<>> /\ calls = <<>> /\ pc = "idle"
NextTx ==
  \/ rxOp = "none" /\ NextMig
  \/ NoMigrate /\ NextRx
  \/ NoMigrate /\ \E where \in {"id=:id", "1"} :
                    RxUpdate(NoUpdateTemplate, where, TRUE, 0)
SpecTx == Init /\ [][NextTx]_vars

\* The connection: DSN is assigned, DB() and ResetDB are called, and Migrate
\* runs, on no file, with a dsn of its own.  The stores are in memory: a
\* store that is closed is gone and the next connection finds nothing.
MemoryDSNs == {DefaultDSN, SharedDSN}

\* DSN = d
SetDSN(d) ==
  /\ DSN' = d
  /\ UNCHANGED <<file, tables, ledger, pc, direction, migrations, idx, err,
                 ledger0, getFailed, log, clean, calls, execCount, faults,
                 singleDB, rxVars, insVars>>

\* DB(): the connection there is, or a new one to DSN.
CallDB ==
  /\ singleDB' = IF singleDB # NoDB THEN singleDB ELSE DSN
  /\ UNCHANGED <<migRest, rxVars, insVars>>

\* ResetDB: nothing when there is no connection, else Close and nil.
ResetDB ==
  /\ singleDB # NoDB
  /\ singleDB' = NoDB
  /\ tables' = {}
  /\ ledger' = <<>>
  /\ UNCHANGED <<file, DSN, pc, direction, migrations, idx, err, ledger0,
                 getFailed, log, clean, calls, execCount, faults, rxVars,
                 insVars>>

NextDB ==
  \/ \E d \in MemoryDSNs : SetDSN(d)
  \/ CallDB
  \/ ResetDB
  \/ \E d \in {"left"} : MigrateUnknown(d)
  \/ \E d \in Dirs, dsn \in MemoryDSNs, openOk \in BOOLEAN :
       MigrateBegin(d, dsn, openOk, {})
SpecDB == InitRx /\ [][NextDB]_vars

\* The mapper of Users with Select and Get.
WhereSet == {<<>>, <<"id=:id">>, <<"id>:id">>,
             <<"w", "h", "e", "r", "e", " ", "id=:id">>,
             <<"W", "H", "E", "R", "E", " ">>}
FaultWhereSet == {<<>>, <<"id=:id">>}
BindSet == {NoBind} \cup {<<i>> : i \in 0..MaxRows}
LimitsAndOffsets == {<<>>, <<0>>, <<1>>, <<2, 1>>}
QueryData == {<<>>} \cup {<<Users(0, n)>> : n \in LoginNames}
NextQuery ==
  \/ \E rows \in QueryData : NewRx(rows)
  \/ \E rows \in QueryData : RxSetData(rows)
  \/ \E fault \in BOOLEAN : RxInsert(fault)
  \/ \E where \in WhereSet, bind \in BindSet, lo \in LimitsAndOffsets :
       RxSelect(where, bind, lo, FALSE)
  \/ \E where \in FaultWhereSet, bind \in {<<1>>} : RxSelect(where, bind, <<>>, TRUE)
  \/ \E where \in WhereSet, bind \in BindSet : RxGet(where, bind, FALSE)
  \/ \E where \in FaultWhereSet, bind \in {<<1>>} : RxGet(where, bind, TRUE)
SpecQuery == InitRx /\ [][NextQuery]_vars

\* ifWhere on the where fragments.
InitWhereSpec ==
  IdleMig /\ IdleRx /\ IdleInsRest /\ IdleName /\ IdleRender /\ IdlePath
    /\ InitWhere
SpecWhere == InitWhereSpec /\ [][NextWhere]_vars

\* CamelToSnake and SnakeToCamel on the names.
InitNamesSpec ==
  IdleMig /\ IdleRx /\ IdleInsRest /\ IdleWhere /\ IdleRender /\ IdlePath
    /\ InitNames
SpecNames == InitNamesSpec /\ [][NextNames]_vars

\* RenderSQLTemplate and replace on the templates.
InitRenderSpec ==
  IdleMig /\ IdleRx /\ IdleInsRest /\ IdleWhere /\ IdleName /\ IdlePath
    /\ InitRender
SpecRender == InitRenderSpec /\ [][NextRender]_vars

\* safeOpen on the paths.
InitOpenSpec ==
  IdleMig /\ IdleRx /\ IdleInsRest /\ IdleWhere /\ IdleName /\ IdleRender
    /\ InitOpen
SpecOpen == InitOpenSpec /\ [][NextOpen]_vars

\* The mapper of a record type and its INSERT.
InitInsert == IdleMig /\ IdleRx /\ InitIns
SpecInsert == InitInsert /\ [][NextIns]_vars

\* The mapper of a record type, its table name and its columns.
InitMetaSpec == IdleMig /\ IdleRx /\ InitMeta
SpecMeta == InitMetaSpec /\ [][NextMeta]_vars

\* ================================================================= claims
\* The unit of the file a line belongs to: the nearest header at or above it.
RECURSIVE HeaderOf(_, _)
HeaderOf(f, i) ==
  IF i = 0 THEN 0
  ELSE IF f[i].kind = "hdr" THEN i
  ELSE HeaderOf(f, i - 1)

Headers(f) == {i \in 1..Len(f) : f[i].kind = "hdr"}
BodyLines(f, h) == {i \in 1..Len(f) : f[i].kind = "sql" /\ HeaderOf(f, i) = h}
InLedger(ldg, f, h) == RowCount(ldg, f[h].version, f[h].direction) > 0
LastCall == calls[Len(calls)]
PrevCall == calls[Len(calls) - 1]
CleanCall(c, d) == c.direction = d /\ c.clean /\ c.err = "nil"
TwiceUp == /\ pc = "returned"
           /\ Len(calls) >= 2
           /\ CleanCall(PrevCall, up)
           /\ CleanCall(LastCall, up)

\* C1: when Migrate up has run twice in a row and nothing failed, the second
\* run executed no unit, the ledger holds exactly one row for every
\* (version, up) header of the file, and, when no earlier call failed either,
\* every statement line of an up unit has been executed exactly once in total.
C1_MigrateUpTwice ==
  TwiceUp =>
    /\ LastCall.nexec = 0
    /\ \A h \in Headers(file) :
         file[h].direction = up => RowCount(ledger, file[h].version, up) = 1
    /\ (\A k \in 1..Len(calls) : calls[k].clean) =>
         \A i \in 1..Len(file) :
           (file[i].kind = "sql" /\ HeaderOf(file, i) # 0
              /\ file[HeaderOf(file, i)].direction = up) => execCount[i] = 1

C1_Witness ==
  /\ TwiceUp
  /\ PrevCall.nexec >= 2
  /\ \E i \in 1..Len(file) : execCount[i] = 1

\* C2: a unit whose (version, direction) row is in the ledger when a call
\* starts is not collected by the call and none of its lines is executed by it.
C2_AppliedNeverRerun ==
  /\ \A k \in 1..Len(migrations) :
       RowCount(ledger0, migrations[k].Version, migrations[k].Direction) = 0
  /\ \A k \in 1..Len(log) : \A j \in 1..Len(log[k].Statements) :
       ~InLedger(ledger0, file, HeaderOf(file, log[k].Statements[j]))

\* The units a call with direction d has to execute, in run order.
RECURSIVE Pending(_, _, _, _)
Pending(f, ldg, d, i) ==
  IF i > Len(f) THEN <<>>
  ELSE IF f[i].kind = "hdr" /\ f[i].direction = d /\ ~InLedger(ldg, f, i)
  THEN <<i>> \o Pending(f, ldg, d, i + 1)
  ELSE Pending(f, ldg, d, i + 1)

Expected(d) ==
  IF d = down THEN Reverse(Pending(file, ledger0, d, 1))
  ELSE Pending(file, ledger0, d, 1)

IsPrefix(s, t) == Len(s) <= Len(t) /\ \A k \in 1..Len(s) : s[k] = t[k]
AsSet(s) == {s[k] : k \in 1..Len(s)}

\* C3: a call with direction d executes the units of direction d that have no
\* ledger row, each with its own lines, in file order for up and in reverse
\* file order for down (all of them when it returns nil, the first ones when
\* it stops at an error), and nothing of a unit of the other direction.
C3_RunOrder ==
  (pc \in {"loop", "returned"} /\ ~unknown(direction)) =>
    /\ IsPrefix([k \in 1..Len(log) |-> log[k].hdr], Expected(direction))
    /\ (pc = "returned" /\ err = "nil") => Len(log) = Len(Expected(direction))
    /\ \A k \in 1..Len(log) :
         /\ log[k].Direction = direction
         /\ AsSet(log[k].Statements) = BodyLines(file, log[k].hdr)

\* What the last statement of a unit leaves behind when all of them ran.
AllPersisted(e) ==
  LET ops == StatementsOf(file, e) IN
  /\ e.done = Len(ops)
  /\ e.after \ {UserTable} = e.before \ {UserTable}
  /\ IF ops = <<>> THEN e.after = e.before
     ELSE (UserTable \in e.after) <=> (Last(ops) = "create")

NonePersisted(e) == e.done = 0 /\ e.after = e.before

\* C4: whenever Migrate returns, every unit it executed has the effects of
\* all of its statements persisted, or of none of them.
C4_UnitAtomic ==
  pc = "returned" =>
    /\ \A k \in 1..Len(log) : AllPersisted(log[k]) \/ NonePersisted(log[k])
    /\ log # <<>> => tables = Last(log).after

C4_Witness ==
  /\ pc = "returned"
  /\ log # <<>>
  /\ Len(Last(log).Statements) >= 2
  /\ Last(log).err = "exec"
  /\ UserTable \notin tables
  /\ file[Last(log).Statements[1]].op = "create"

\* C5: when the statements of a unit fail, the call returns that error at
\* once: the failing unit gets no ledger row, no unit after it in the run
\* order is executed or recorded, and the units executed before it in the
\* run are applied and recorded.
C5_FailFast ==
  (pc \in {"loop", "returned"} /\ log # <<>>
     /\ \E k \in 1..Len(log) : log[k].err \in {"exec", "commit"}) =>
    LET e == Last(log) IN
    /\ pc = "returned"
    /\ err = e.err
    /\ e.err \in {"exec", "commit"}
    /\ migrations[idx].hdr = e.hdr
    /\ ~e.recorded
    /\ ledger = e.ledgerBefore
    /\ tables = e.before
    /\ Len(ledger) = Len(ledger0) + Len(log) - 1
    /\ \A k \in 1..(Len(log) - 1) :
         /\ log[k].err = "nil"
         /\ log[k].recorded
         /\ log[k].done = Len(log[k].Statements)
         /\ RowCount(ledger, log[k].Version, log[k].Direction) = 1
    /\ \A k \in (idx + 1)..Len(migrations) :
         \A j \in 1..Len(log) : log[j].hdr # migrations[k].hdr

C5_Witness ==
  /\ pc = "returned"
  /\ err = "exec"
  /\ Len(log) = 2
  /\ idx < Len(migrations)
  /\ migrations[idx + 1].Direction = direction
  /\ Len(ledger) = Len(ledger0) + 1

\* C6: when the ledger lookup of a header fails with another error than
\* 'no rows', Migrate returns an error and no line below that header is
\* executed, as part of whatever unit.
C6_LookupErrorHalts ==
  (pc \in {"loop", "returned"} /\ getFailed # {}) =>
    /\ pc = "returned" => err # "nil"
    /\ \A k \in 1..Len(log) : \A j \in 1..Len(log[k].Statements) :
         \A h \in getFailed : log[k].Statements[j] < h

\* A file of one up unit that creates T and one down unit, of the same
\* version, that drops T.
CreateDropFile(v) ==
  /\ Cardinality(Headers(file)) = 2
  /\ \E hu, hd \in Headers(file) :
       /\ file[hu] = Hdr(v, up) /\ file[hd] = Hdr(v, down)
       /\ \E c, d \in 1..Len(file) :
            /\ BodyLines(file, hu) = {c} /\ file[c].op = "create"
            /\ BodyLines(file, hd) = {d} /\ file[d].op = "drop"

UpThenDown ==
  /\ pc = "returned"
  /\ Len(calls) = 2
  /\ CleanCall(calls[1], up)
  /\ CleanCall(calls[2], down)

\* C7: for such a file Migrate up followed by Migrate down leaves T absent
\* and the ledger with one row for (version, up) and one for (version, down).
C7_UpThenDown ==
  \A v \in Versions :
    (CreateDropFile(v) /\ UpThenDown) =>
      /\ UserTable \notin tables
      /\ RowCount(ledger, v, up) = 1
      /\ RowCount(ledger, v, down) = 1
      /\ Len(ledger) = 2

C7_Witness ==
  /\ CreateDropFile(1)
  /\ UpThenDown
  /\ calls[1].nexec = 1
  /\ calls[2].nexec = 1
  /\ execCount = [k \in 1..Len(file) |-> IF file[k].kind = "sql" /\ HeaderOf(file, k) # 0 THEN 1 ELSE 0]

\* C8: when the UPDATE of one of the records fails, Update returns the error
\* and the store shows the values it had before the call for every record,
\* those whose statement had succeeded included.
C8_UpdateAllOrNothing ==
  (rxOp = "Update" /\ rxResult = "error") =>
    /\ users = users0
    /\ nBegin = 1

C8_Witness ==
  /\ rxOp = "Update"
  /\ rxResult = "error"
  /\ done = 1
  /\ nExec = 2
  /\ data = <<Users(1, "third"), Users(2, "third")>>
  /\ users = {UserRow(1, "first"), UserRow(2, "second")}

\* C9: Insert and Update on a mapper that holds no record end in a panic, not
\* in an error, and before the store is touched: no transaction was begun and
\* no statement was prepared or executed.
C9_NoDataPanics ==
  /\ (rxOp \in {"Insert", "Update"} /\ Len(data) = 0) => rxResult = "panic"
  /\ rxResult = "panic" =>
       /\ Len(data) = 0
       /\ nBegin = 0 /\ nPrepare = 0 /\ nExec = 0
       /\ users = users0

C9_Witness ==
  /\ rxOp = "Update"
  /\ rxResult = "panic"
  /\ users # {}
  /\ singleDB # NoDB

\* C10: the column of a field tagged auto is neither in the column list nor
\* in the placeholder list of the INSERT that Insert renders, whatever the
\* records hold.
C10_AutoNeverInserted ==
  (rresult \in {"ok", "error"} /\ rquery # <<>>) =>
    \A k \in 1..Len(rtype) :
      "auto" \in rtype[k].opts =>
        /\ rtype[k].path \notin ColumnList(rquery)
        /\ rtype[k].path \notin PlaceholderList(rquery)

C10_Witness ==
  /\ rresult = "ok"
  /\ Len(rdata) = 1
  /\ ColumnList(rquery) # {}
  /\ PlaceholderList(rquery) = ColumnList(rquery)
  /\ \E k \in 1..Len(rtype) :
       /\ "auto" \in rtype[k].opts
       /\ \E c \in 1..Len(Columns(rtype, rcustom)) :
            Columns(rtype, rcustom)[c] = rtype[k].path
       /\ rdata[1][k] = 7

\* C11: when id is a column of the record type and its field is not tagged
\* auto, the rendered INSERT names id exactly when the field is tagged
\* no_auto, and a successful Insert then stores the record's own id value.
C11_IdUnlessNoAuto ==
  (rresult \in {"ok", "error"} /\ rquery # <<>>) =>
    \A k \in 1..Len(rtype) :
      ( /\ rtype[k].path = "id"
        /\ "auto" \notin rtype[k].opts
        /\ \E c \in 1..Len(Columns(rtype, rcustom)) : Columns(rtype, rcustom)[c] = "id" )
      => /\ ("id" \in ColumnList(rquery)) <=> ("no_auto" \in rtype[k].opts)
         /\ ("no_auto" \in rtype[k].opts /\ rresult = "ok")
              => rrows[Len(rrows)]["id"] = rdata[1][k]

\* How often Columns() names the path of field k.
TimesNamed(k) == Cardinality({c \in 1..Len(rcolumns) : rcolumns[c] = rtype[k].path})
ColumnsAsked == rcolumns # <<>> \/ rquery # <<>>

SelectsId(w) == w # <<>> /\ w[Len(w)] = "id=:id"

\* C13: a Get that follows a successful Insert and selects the id the store
\* gave to one of the inserted records returns that record: the id the store
\* assigned, and the LoginName the record was inserted with.
C13_InsertThenGet ==
  [][(rxOp = "Insert" /\ rxResult = "ok" /\ rxOp' = "Get" /\ rxErr' # "store") =>
       \A k \in 1..Len(data) :
         (SelectsId(rxArgs'.where) /\ rxArgs'.bind = <<seq - Len(data) + k>>) =>
           /\ rxErr' = "nil"
           /\ ret' = <<Users(seq - Len(data) + k, data[k].LoginName)>>]_vars

C13_Witness ==
  /\ rxOp = "Get"
  /\ rxErr = "nil"
  /\ data = <<Users(0, "second")>>
  /\ rxArgs.bind = <<2>>
  /\ ret = <<Users(2, "second")>>
  /\ Cardinality(users) = 2

\* The rows the where fragment and the bind data of the last call select.
Hits == {r \in users : Matches(r, ifWhere(rxArgs.where), rxArgs.bind)}
Answerable == /\ WellFormed(ifWhere(rxArgs.where))
              /\ (rxArgs.where # <<>> => rxArgs.bind # NoBind)

\* C14: Get renders the SELECT that Select renders for limit 1 and offset 0;
\* when a row matches it returns one matching record and no error; when no
\* row matches it returns the error 'no rows', which it returns in no other
\* case, so not for a fragment that cannot be bound or parsed.
C14_GetOneOrNoRows ==
  rxOp = "Get" =>
    /\ rxQuery = Select(users, data, rxArgs.where, rxArgs.bind, <<1, 0>>, FALSE).query
    /\ SubSeq(rxQuery, Len(rxQuery) - 3, Len(rxQuery)) = <<" LIMIT ", "1", " OFFSET ", "0">>
    /\ (Answerable /\ rxErr # "store") =>
         IF Hits = {}
         THEN rxErr = "norows" /\ rxResult = "error"
         ELSE /\ rxErr = "nil" /\ rxResult = "ok"
              /\ Len(ret) = 1
              /\ UserRow(ret[1].ID, ret[1].LoginName) \in Hits
    /\ rxErr = "norows" => (Answerable /\ Hits = {})
    /\ ~Answerable => rxErr \in {"bind", "syntax"}

C14_Witness ==
  /\ rxOp = "Get"
  /\ rxErr = "norows"
  /\ users # {}
  /\ rxArgs.where = <<"id=:id">>
  /\ rxArgs.bind = <<0>>

\* C15: after a successful Select the data of the mapper is what the call
\* returned, the matching rows (none: empty data), whatever it held before;
\* after SetData and NewRx the data is the rows given; and in every state,
\* whatever the last call was and however it ended, SetData and Insert can
\* be called (Select and Get have no precondition at all).
C15_Reenterable ==
  /\ (rxOp = "Select" /\ rxResult = "ok") =>
       /\ data = ret
       /\ \A i \in 1..Len(ret) : UserRow(ret[i].ID, ret[i].LoginName) \in Hits
       /\ Hits = {} => data = <<>>
       /\ rxArgs.lo = <<>> => Len(data) = Cardinality(Hits)
  /\ rxOp \in {"SetData", "NewRx"} => data = rxArgs.rows
  /\ ENABLED RxSetData(<<>>)
  /\ seq + Len(data) <= MaxRows => ENABLED RxInsert(FALSE)

C15_Witness ==
  /\ rxOp = "Select"
  /\ rxResult = "ok"
  /\ rxArgs.where = <<"id>:id">>
  /\ rxArgs.bind = <<0>>
  /\ rxArgs.lo = <<>>
  /\ Len(ret) = 2
  /\ data = ret

\* A fragment without its leading whitespace.
RECURSIVE SkipSpace(_)
SkipSpace(s) == IF s # <<>> /\ s[1] \in Space THEN SkipSpace(Tail(s)) ELSE s
StartsWithWhere(s) ==
  LET t == SkipSpace(s) IN
  /\ Len(t) >= 6
  /\ <<Lower(t[1]), Lower(t[2]), Lower(t[3]), Lower(t[4]), Lower(t[5])>> = WhereKeyword
  /\ t[6] \in Space

\* C16: ifWhere returns the fragment as it is when it is empty or starts,
\* after optional whitespace and in any case of the letters, with the word
\* where followed by whitespace; any other fragment gets 'WHERE ' in front of
\* it, once; ifWhere of the result is the result.
C16_IfWhere ==
  /\ wPc >= 1 =>
       wOut = IF wIn = <<>> \/ StartsWithWhere(wIn) THEN wIn
              ELSE <<"W", "H", "E", "R", "E", " ">> \o wIn
  /\ wPc >= 2 => wAgain = wOut

C16_Witness ==
  /\ wPc = 2
  /\ wIn = <<"w", "H", "e", "R", "e">>
  /\ wOut = <<"W", "H", "E", "R", "E", " ", "w", "H", "e", "R", "e">>
  /\ wAgain = wOut

C16_WitnessKept ==
  /\ wPc = 2
  /\ wIn = <<" ", "w", "H", "e", "R", "e", " ">>
  /\ wOut = wIn

\* A PascalCase identifier starts with an uppercase rune.
PascalCase(x) == Len(x) >= 1 /\ IsUpper(x[1])
ContainsInitialism(x) ==
  \E i, j \in 1..Len(x) : i <= j /\ SubSeq(ToLowerAll(x), i, j) \in Initialisms
\* No uppercase rune directly follows an uppercase rune other than the first.
NoUpperPair(x) == \A i \in 3..Len(x) : ~(IsUpper(x[i]) /\ IsUpper(x[i - 1]))

\* C17 as stated: SnakeToCamel(CamelToSnake(x)) = x for every PascalCase
\* identifier x, of any length, that contains no recognized initialism.
C17_RoundTripAsStated ==
  (nPc = 2 /\ PascalCase(nIn) /\ ~ContainsInitialism(nIn)) => nCamel = nIn

\* C17 amended: SnakeToCamel(CamelToSnake(x)) = x for every PascalCase
\* identifier x that contains no recognized initialism, is not two runes
\* long and has no uppercase rune directly after an uppercase rune other
\* than its first; a name of two runes comes back in upper case.
C17_RoundTrip ==
  (nPc = 2 /\ PascalCase(nIn) /\ ~ContainsInitialism(nIn)) =>
    /\ (Len(nIn) # 2 /\ NoUpperPair(nIn)) => nCamel = nIn
    /\ Len(nIn) = 2 => nCamel = ToUpperAll(nIn)

C17_Witness ==
  /\ nPc = 2
  /\ nIn = <<"U", "D", "e", "s", "U", "s">>
  /\ nSnake = <<"u", "_", "d", "e", "s", "_", "u", "s">>
  /\ nCamel = nIn

\* The words of a name made of capitalized words (an uppercase rune and one
\* or more lowercase runes) and ID, in lower case; NoWords for any other.
NoWords == << <<>> >>
RECURSIVE WordsOf(_)
WordsOf(x) ==
  IF Len(x) = 0 THEN <<>>
  ELSE IF Len(x) = 1 \/ ~IsUpper(x[1]) THEN NoWords
  ELSE LET id == x[1] = "I" /\ x[2] = "D"
           n == IF id THEN 2
                ELSE IF IsUpper(x[2]) THEN 0
                ELSE CHOOSE m \in 2..Len(x) :
                       /\ \A i \in 2..m : ~IsUpper(x[i])
                       /\ (m = Len(x) \/ IsUpper(x[m + 1]))
       IN IF n = 0 THEN NoWords
          ELSE LET rest == WordsOf(SubSeq(x, n + 1, Len(x)))
               IN IF rest = NoWords THEN rest
                  ELSE <<ToLowerAll(SubSeq(x, 1, n))>> \o rest

RECURSIVE JoinWords(_)
JoinWords(ws) ==
  IF Len(ws) = 0 THEN <<>>
  ELSE IF Len(ws) = 1 THEN ws[1]
  ELSE ws[1] \o <<"_">> \o JoinWords(Tail(ws))

\* C18: CamelToSnake gives a name of two runes in lower case, and a name made
\* of capitalized words and ID as its words in lower case joined by '_';
\* SnakeToCamel turns user_id back into UserID.
C18_SnakeOfWords ==
  /\ (nPc >= 1 /\ Len(nIn) = 2) => nSnake = ToLowerAll(nIn)
  /\ (nPc >= 1 /\ nIn # <<>> /\ WordsOf(nIn) # NoWords) => nSnake = JoinWords(WordsOf(nIn))
  /\ (nPc = 2 /\ nSnake = <<"u", "s", "e", "r", "_", "i", "d">>) =>
       nCamel = <<"U", "s", "e", "r", "I", "D">>

\* C18 without a name that starts with ID and goes on.
C18_ExceptLeadingID ==
  /\ (nPc >= 1 /\ Len(nIn) = 2) => nSnake = ToLowerAll(nIn)
  /\ (nPc >= 1 /\ nIn # <<>> /\ WordsOf(nIn) # NoWords
        /\ ~(Len(nIn) > 2 /\ nIn[1] = "I" /\ nIn[2] = "D"))
       => nSnake = JoinWords(WordsOf(nIn))
  /\ (nPc = 2 /\ nSnake = <<"u", "s", "e", "r", "_", "i", "d">>) =>
       nCamel = <<"U", "s", "e", "r", "I", "D">>


\* ------------------------------------------------------------ C19 and C20
\* The end tag that closes a start tag at the place i of a text: the first
\* end tag after it, 0 when there is none.
ClosedAt(text, i) ==
  IF \E j \in (i + 1)..Len(text) : text[j] = endTag
  THEN CHOOSE j \in (i + 1)..Len(text) :
         text[j] = endTag /\ \A k \in (i + 1)..(j - 1) : text[k] # endTag
  ELSE 0

\* The places of a text where a placeholder begins: a start tag that is
\* closed and does not lie within a placeholder that began before it.
Opens(text) ==
  LET o[i \in 0..Len(text)] ==
        IF i = 0 THEN {}
        ELSE IF /\ text[i] = startTag
                /\ ClosedAt(text, i) # 0
                /\ \A p \in o[i - 1] : ClosedAt(text, p) < i
             THEN o[i - 1] \cup {i}
             ELSE o[i - 1]
  IN o[Len(text)]

\* The placeholder at the place i names something that m binds.
BoundAt(text, i, m) == ClosedAt(text, i) = i + 2 /\ text[i + 1] \in DOMAIN m

\* One substitution pass told place by place: a placeholder gives the value
\* bound to its name, or itself when nothing is bound to it, and every piece
\* outside the placeholders gives itself.
OnePass(text, m) ==
  LET opens == Opens(text)
      piece(i) ==
        IF i \in opens
        THEN IF BoundAt(text, i, m) THEN m[text[i + 1]]
             ELSE SubSeq(text, i, ClosedAt(text, i))
        ELSE IF \E p \in opens : p < i /\ i <= ClosedAt(text, p) THEN <<>>
        ELSE <<text[i]>>
      out[i \in 0..Len(text)] == IF i = 0 THEN <<>> ELSE out[i - 1] \o piece(i)
  IN out[Len(text)]

\* The longest value of a dictionary, 1 at least.
Longest(m) ==
  CHOOSE l \in 1..(MaxTextLen + 3) :
    /\ \A k \in DOMAIN m : Len(m[k]) <= l
    /\ l = 1 \/ \E k \in DOMAIN m : Len(m[k]) = l

\* C19: RenderSQLTemplate ends for every dictionary and stash, entries that
\* name themselves or each other included: what it returns is one pass over
\* the template with the dictionary and then one pass over the result with
\* the stash, so it is no longer than the template times the longest entry
\* times the longest stash value, and the value the stash pass writes for
\* the first placeholder stands in the result as it is, placeholders in it
\* included.
C19_TwoPasses ==
  (tPc = "rendered" /\ tKey \in DOMAIN tDict) =>
    LET mid == OnePass(tDict[tKey], tDict)
        first == CHOOSE i \in Opens(mid) : \A j \in Opens(mid) : i <= j
    IN /\ tSql = OnePass(mid, tStash)
       /\ Len(tSql) <= Len(tDict[tKey]) * Longest(tDict) * Longest(tStash)
       /\ (Opens(mid) # {} /\ BoundAt(mid, first, tStash)) =>
            LET v == tStash[mid[first + 1]]
            IN SubSeq(tSql, 1, first - 1 + Len(v))
                 = SubSeq(mid, 1, first - 1) \o v

\* A : ${B} and B : ${A} name each other, the stash binds A to ${x} and x
\* too: the result is ${x}, as the stash gave it.
C19_Witness ==
  /\ tPc = "rendered"
  /\ tKey = "A"
  /\ tDict.A = <<startTag, "B", endTag>>
  /\ tDict.B = <<startTag, "A", endTag>>
  /\ DOMAIN tStash = {"A", "x"}
  /\ tStash.A = <<startTag, "x", endTag>>
  /\ tSql = <<startTag, "x", endTag>>

NoPlaceholder(text) == Opens(text) = {}

\* C20: replace leaves the placeholders that nothing is bound to as they
\* are, up to the first one when others are bound and the whole text when
\* none is; a text without a placeholder comes back unchanged, so a second
\* replace of a result without a placeholder gives that result again.
C20_RenderNoOp ==
  /\ tPc \in {"once", "twice"} =>
       LET t == tDict.A
           first == CHOOSE i \in Opens(t) : \A j \in Opens(t) : i <= j
       IN /\ NoPlaceholder(t) => tOnce = t
          /\ (\A i \in Opens(t) : ~BoundAt(t, i, tStash)) => tOnce = t
          /\ (Opens(t) # {} /\ ~BoundAt(t, first, tStash)) =>
               SubSeq(tOnce, 1, ClosedAt(t, first))
                 = SubSeq(t, 1, ClosedAt(t, first))
  /\ (tPc = "twice" /\ NoPlaceholder(tOnce)) => tTwice = tOnce

\* A template whose placeholders replace resolved all, rendered again.
C20_Witness ==
  /\ tPc = "twice"
  /\ Opens(tDict.A) # {}
  /\ tOnce # tDict.A
  /\ NoPlaceholder(tOnce)
  /\ tTwice = tOnce


\* -------------------------------------------------------------------- C27
\* C27: a Select that returns an error, from the named binding or from the
\* store, leaves m.data as it was before the call.
C27_SelectErrorKeepsData ==
  [][(rxOp' = "Select" /\ rxResult' = "error") => data' = data]_vars


\* -------------------------------------------------------------------- C22
\* C22: a NewRx call for the record type of a mapper that a caller already
\* holds, with other rows or with none, leaves the records of that mapper,
\* which its Data() returns and its Insert and Update write, as they were.
C22_NewRxKeepsData ==
  [][(rxOp # "none" /\ rxOp' = "NewRx") => data' = data]_vars


\* -------------------------------------------------------------------- C23
\* C23: a Migrate call with a direction other than up and down returns an
\* error and does nothing else: DSN and the connection are as before, the
\* ledger table is not created, no statement runs and no unit is collected
\* from the file.
C23_UnknownDirectionNoEffect ==
  [][(Len(calls') = Len(calls) + 1 /\ unknown(Last(calls').direction)) =>
       /\ pc' = "returned"
       /\ err' = "direction"
       /\ Last(calls').err = "direction"
       /\ migrations' = <<>>
       /\ log' = <<>>
       /\ UNCHANGED <<DSN, singleDB, tables, ledger, execCount>>]_vars

\* The call came first: nothing is connected and no table exists.
C23_Witness ==
  /\ pc = "returned"
  /\ unknown(direction)
  /\ err = "direction"
  /\ singleDB = NoDB
  /\ DSN = DefaultDSN
  /\ MigrationsTable \notin tables


\* -------------------------------------------------------------------- C25
\* C25: whenever Migrate returns, with an error or without, every unit whose
\* transaction was committed during the call has its row in the ledger.
C25_CommittedIsRecorded ==
  pc = "returned" =>
    \A k \in 1..Len(log) :
      log[k].err \in {"nil", "insert"} =>
        RowCount(ledger, log[k].Version, log[k].Direction) > 0


\* -------------------------------------------------------------------- C26
\* C26 as stated: Update and the execution of a unit begin exactly one
\* transaction each, and it is ended, by Commit or by Rollback, when the
\* call ends.
C26_ExactlyOneTransaction ==
  /\ rxOp = "Update" => (nBegin = 1 /\ nEnd = 1)
  /\ \A k \in 1..Len(log) : log[k].begun = 1 /\ log[k].ended = 1

\* C26: Update begins no transaction when it panics for lack of records and
\* exactly one otherwise, the execution of a unit begins exactly one, and on
\* every way out (success, an error of prepare, of a statement or of the
\* commit, a panic after the begin) every transaction begun is ended.
C26_NoOpenTransaction ==
  /\ rxOp = "Update" =>
       /\ nBegin = (IF Len(data) = 0 THEN 0 ELSE 1)
       /\ nEnd = nBegin
  /\ \A k \in 1..Len(log) : log[k].begun = 1 /\ log[k].ended = 1

\* Update panicked after it had begun its transaction.
C26_Witness ==
  /\ rxOp = "Update"
  /\ rxResult = "panic"
  /\ nBegin = 1
  /\ nEnd = 1
  /\ users # {}


\* -------------------------------------------------------------------- C30
\* C30: the connection is opened when there is none, to the DSN of that
\* moment (the dsn of Migrate when Migrate opens it), and stays the one it
\* is until ResetDB takes it away: no step changes it into a connection to
\* another store, and a step that assigns DSN, the call of Migrate with a
\* dsn of its own included, leaves it as it is.
C30_ConnectedOnce ==
  [][/\ singleDB # NoDB => singleDB' \in {singleDB, NoDB}
     /\ (singleDB # NoDB /\ DSN' # DSN) => singleDB' = singleDB
     /\ (singleDB = NoDB /\ singleDB' # NoDB) => singleDB' = DSN']_vars

\* Migrate was given another dsn than the one the connection was opened
\* with, and created its ledger table through that connection.
C30_Witness ==
  /\ singleDB = DefaultDSN
  /\ DSN = SharedDSN
  /\ pc = "returned"
  /\ err = "nil"
  /\ MigrationsTable \in tables


\* -------------------------------------------------------------------- C28
\* C28: SQLForSET of the columns c1, ..., cn is SET c1 = :c1, ..., cn = :cn
\* with no comma after the last, where a column that has an upper case rune
\* at any place stands in snake_case.  Here: with nIn as the only column.
HasUpper(v) == \E i \in 1..Len(v) : IsUpper(v[i])
C28_SetOfAnyUpper ==
  nPc = 3 =>
    \E v \in {IF HasUpper(nIn) THEN CamelToSnake(nIn) ELSE nIn} :
      \/ nSet = <<"S", "E", "T", " ">> \o v \o <<" ", "=", " ", ":">> \o v
      \/ nSet = <<"S", "E", "T", " ">> \o v \o <<" ", "=", " ", ":">> \o v
                  \o <<",", " ">> \o IdColumn \o <<" ", "=", " ", ":">> \o IdColumn
      \/ nSet = <<"S", "E", "T", " ">> \o IdColumn \o <<" ", "=", " ", ":">> \o IdColumn
                  \o <<",", " ">> \o v \o <<" ", "=", " ", ":">> \o v


\* -------------------------------------------------------------------- C21
\* The working directory and what is below it.
InTree(abs) == abs = cwd \/ HasPrefix(abs, cwd \o <<"/">>)

\* C21: a path whose absolute cleaned form is neither the working directory
\* nor below it makes safeOpen panic, and what safeOpen opens is in the tree
\* of the working directory.
C21_OnlyTheTreeIsOpened ==
  pPc = 1 =>
    /\ ~InTree(Abs(Clean(pPath))) => pRes = "panic"
    /\ pRes = "opened" => InTree(Abs(Clean(pPath)))

\* What holds of the code: no path that leaves the working directory for a
\* directory above it, or for one whose name does not start as the name of
\* the working directory does, is opened.
C21_PrefixIsChecked ==
  pPc = 1 =>
    /\ ~HasPrefix(Abs(Clean(pPath)), cwd) <=> pRes = "panic"
    /\ InTree(Abs(Clean(pPath))) => pRes # "panic"


\* -------------------------------------------------------------------- C24
\* C24: Table() returns the name the mapper has already; else, when the
\* record type has a Table() of its own and does not embed the mapper, the
\* name that method returns; else the snake_case of the name of the record
\* type, its words in lower case joined by '_'.  With a record type that
\* embeds the mapper Table() does not call itself without end.
C24_TablePrecedence ==
  [][rop' = "Table" =>
       /\ rtable # "" => tableRet' = rtable
       /\ (rtable = "" /\ rmeta.has /\ ~Embeds(rtype)) => tableRet' = rmeta.table
       /\ (rtable = "" /\ ~(rmeta.has /\ ~Embeds(rtype)))
            => tableRet' = Text(JoinWords(WordsOf(rname)))
       /\ tableRet' # "stack overflow"]_vars

\* The precedence with what CamelToSnake makes of the name of the type.
C24_PrecedenceOfCamelToSnake ==
  [][rop' = "Table" =>
       /\ rtable # "" => tableRet' = rtable
       /\ (rtable = "" /\ rmeta.has /\ ~Embeds(rtype)) => tableRet' = rmeta.table
       /\ (rtable = "" /\ ~(rmeta.has /\ ~Embeds(rtype)))
            => tableRet' = Text(CamelToSnake(rname))
       /\ tableRet' # "stack overflow"]_vars

\* Table() was called on the mapper of a type that embeds the mapper and
\* has a Table() of its own.
C24_Witness ==
  /\ rop = "Table"
  /\ rmeta.has
  /\ Embeds(rtype)
  /\ rname = <<"U", "s", "e", "r", "I", "D">>
  /\ tableRet = "user_id"
  /\ rtable = "user_id"

\* -------------------------------------------------------------------- C29
\* C29: what Table() returned it returns again, what Columns() returned it
\* returns again, and no call of Insert, Select, Get, Update, Delete or
\* SetData changes the table name or the columns the mapper has kept.
C29_MetaIsKept ==
  [][/\ tableRet # "none" => tableRet' = tableRet
     /\ colsRet # <<"none">> => colsRet' = colsRet
     /\ rtable # "" => rtable' = rtable
     /\ rcolumns # <<>> => rcolumns' = rcolumns
     /\ (tableRet # "none" /\ rtable' # "") => rtable' = tableRet
     /\ (colsRet # <<"none">> /\ rcolumns' # <<>>) => rcolumns' = colsRet]_vars

\* Table() and Columns() were called, later records were selected, and
\* Table() was the last call.
C29_Witness ==
  /\ rop = "Table"
  /\ tableRet = "users"
  /\ colsRet = <<"id">>
  /\ rresult = "ok"
  /\ rdata = <<<<7>>>>
  /\ rquery # <<>>
  /\ rquery[1] = "SELECT "

====
